---- MODULE Spec2Model ----
(***************************************************************************)
(* TriDet detection head: loss normalizer, label assignment, Trident       *)
(* offset decoding and the per-level inference filter, modelled from       *)
(* src/libs/modeling/meta_archs.py.                                        *)
(*                                                                         *)
(* Real numbers are exact: a time is an integer number of 1/TimeScale grid *)
(* steps, a probability or a loss is a reduced fraction <<num, den>>.      *)
(* A logit x is carried as its exponential exp(x) (a natural number, 0 for *)
(* -inf, or NaN), so that softmax is exact integer arithmetic.             *)
(***************************************************************************)
EXTENDS Integers, Sequences, FiniteSets, TLC

VARIABLES
    cfg,              \* the fields TriDet.__init__ sets from the configuration
    training,         \* nn.Module.training
    loss_normalizer,  \* self.loss_normalizer, a fraction
    steps,            \* number of calls of losses() so far
    pc,               \* where the current call is
    args,             \* the arguments of the call in progress
    res               \* what the last call returned

vars == <<cfg, training, loss_normalizer, steps, pc, args, res>>

----------------------------------------------------------------------------
(* Bounds of the model *)

\* number of training steps explored
MaxSteps == 2
\* number of ground-truth segments of a sample
MaxGts == 2

----------------------------------------------------------------------------
(* Shapes of the explored inputs *)

\* action classes 0 .. num_classes-1
Classes == {0, 1}
num_classes == Cardinality(Classes)
\* scale_factor ** i for the pyramid levels (fpn_strides)
fpn_strides == <<1, 2>>
NumLevels == Len(fpn_strides)
Levels == 1..NumLevels
\* T_i: length of the padded sequence on each level
LevelLen == <<2, 1>>
\* number of points of all levels
NumPts == LevelLen[1] + LevelLen[2]
Pts == 0..(NumPts - 1)

Max(a, b) == IF a >= b THEN a ELSE b
Min(a, b) == IF a <= b THEN a ELSE b
Abs(a) == IF a < 0 THEN -a ELSE a

RECURSIVE Gcd(_, _)
Gcd(a, b) == IF b = 0 THEN a ELSE Gcd(b, a % b)

----------------------------------------------------------------------------
(* Exact fractions <<num, den>>, reduced, den > 0; a division by zero gives  *)
(* what IEEE arithmetic gives: <<1, 0>> is +inf, <<-1, 0>> is -inf and       *)
(* <<0, 0>> is NaN                                                          *)

NaN == <<0, 0>>
IsNaN(x) == x = NaN
Frac(n, d) ==
    IF d = 0
    THEN <<(IF n > 0 THEN 1 ELSE IF n < 0 THEN -1 ELSE 0), 0>>
    ELSE LET g == Gcd(Abs(n), Abs(d))
             s == IF d < 0 THEN -1 ELSE 1
         IN  <<(s * n) \div g, (s * d) \div g>>
FInt(n) == <<n, 1>>
FAdd(x, y) == Frac(x[1] * y[2] + y[1] * x[2], x[2] * y[2])
FMul(x, y) == Frac(x[1] * y[1], x[2] * y[2])
FDiv(x, y) == Frac(x[1] * y[2], x[2] * y[1])
FLeq(x, y) == x[1] * y[2] <= y[1] * x[2]
FLt(x, y) == x[1] * y[2] < y[1] * x[2]
FMax(x, y) == IF FLeq(y, x) THEN x ELSE y

----------------------------------------------------------------------------
(* Loss computer: TriDet.losses *)

\* self.loss_normalizer_momentum = 0.9
loss_normalizer_momentum == <<9, 10>>

\* valid_mask = torch.cat(fpn_masks, dim=1): the level masks, each valid on a
\* prefix of its level, laid out level after level
LevelOf(p) == IF p < LevelLen[1] THEN 1 ELSE 2
PosInLevel(p) == IF p < LevelLen[1] THEN p ELSE p - LevelLen[1]
valid_mask(fpn_lens) == [p \in Pts |-> PosInLevel(p) < fpn_lens[LevelOf(p)]]

\* pos_mask of losses(): positions (single label) or (position, class) pairs
\* (multi label) with a nonzero classification target inside valid_mask
MutPosMaskNoValid(multi_label, gt_cls, vmask) ==
    IF multi_label
    THEN {pc2 \in Pts \X Classes : pc2[2] \in gt_cls[pc2[1]]}
    ELSE {p \in Pts : gt_cls[p] # {}}
pos_mask(multi_label, gt_cls, vmask) ==
    IF multi_label
    THEN {pc2 \in Pts \X Classes : pc2[2] \in gt_cls[pc2[1]] /\ vmask[pc2[1]]}
    ELSE {p \in Pts : gt_cls[p] # {} /\ vmask[p]}

\* self.loss_normalizer = momentum * self.loss_normalizer
\*                        + (1 - momentum) * max(num_pos, 1)
MutUpdateNoFloor(prev, num_pos) ==
    FAdd(FMul(loss_normalizer_momentum, prev),
         FMul(FAdd(FInt(1), FMul(FInt(-1), loss_normalizer_momentum)),
              FInt(num_pos)))
MutUpdateAccumulate(prev, num_pos) ==
    FAdd(prev,
         FMul(FAdd(FInt(1), FMul(FInt(-1), loss_normalizer_momentum)),
              FInt(Max(num_pos, 1))))
UpdateNormalizer(prev, num_pos) ==
    FAdd(FMul(loss_normalizer_momentum, prev),
         FMul(FAdd(FInt(1), FMul(FInt(-1), loss_normalizer_momentum)),
              FInt(Max(num_pos, 1))))

\* x.sum() of the entries of f at the indices S
RECURSIVE SumOver(_, _)
SumOver(f, S) ==
    IF S = {} THEN FInt(0)
    ELSE LET x == CHOOSE y \in S : TRUE
         IN  FAdd(f[x], SumOver(f, S \ {x}))

\* the focal loss of the entries kept by valid_mask (lines 829-841), one entry
\* per valid position and class, `focal` being what the loss of the library
\* gives at each entry
MutFocalAllPositions(focal, vmask) == [q \in DOMAIN focal |-> FInt(focal[q])]
sigmoid_focal_loss(focal, vmask) ==
    [q \in {x \in DOMAIN focal : vmask[x[1]]} |-> FInt(focal[q])]

\* cls_loss = cls_loss.sum(); cls_loss /= self.loss_normalizer
ClsLoss(cls_each, normalizer) == FDiv(SumOver(cls_each, DOMAIN cls_each), normalizer)

\* pred_offsets (lines 811-820): the decoded offsets at pos_mask, one row <<p>>
\* per positive position, or one row <<p, k>> per positive (position, class)
\* in multi-label mode and, with the Trident head, per class set at a
\* positive position
pred_offsets(c, gt_cls, vmask, decoded) ==
    LET pos == pos_mask(c.multi_label, gt_cls, vmask)
        rows == IF c.multi_label THEN pos
                ELSE IF c.use_trident_head
                     THEN {q \in Pts \X Classes : q[1] \in pos /\ q[2] \in gt_cls[q[1]]}
                     ELSE {<<p>> : p \in pos}
    IN  [x \in rows |-> decoded[x[1]]]

\* ctr_giou_loss_1d(pred_offsets, gt_offsets, reduction='none'): one value per
\* row of pred_offsets, giou[p] being what the library's loss gives for the
\* offsets of position p, NaN when the predicted offset is NaN
ctr_giou_loss_1d(pred, giou) ==
    [x \in DOMAIN pred |-> IF IsNaN(pred[x]) THEN NaN ELSE giou[x[1]]]

\* x ** n for the integer powers n >= 0: repeated multiplication, and 1 for
\* the power 0 whatever x is (NaN included)
RECURSIVE Pow(_, _)
Pow(x, n) == IF n = 0 THEN FInt(1) ELSE FMul(x, Pow(x, n - 1))

\* lines 843-851, with the Trident head only: the entries of cls_loss under
\* rated_mask (the classes set at the valid positions) are multiplied by
\* (1 - iou_rate) ** self.iou_weight_power, row by row; the rows of iou_rate
\* are those of pred_offsets, which are the same entries in the same order
iou_coupled(c, cls_each, gt_cls, iou_rate) ==
    IF ~c.use_trident_head THEN cls_each
    ELSE [q \in DOMAIN cls_each |->
            IF q[2] \in gt_cls[q[1]]
            THEN FMul(cls_each[q],
                      Pow(FAdd(FInt(1), FMul(FInt(-1),
                                             IF q \in DOMAIN iou_rate
                                             THEN iou_rate[q] ELSE NaN)),
                          c.iou_weight_power))
            ELSE cls_each[q]]

\* ctr_diou_loss_1d(pred_offsets, gt_offsets, reduction='sum'): the value
\* reg_sum of the library's loss, NaN when a predicted offset is NaN
ctr_diou_loss_1d(pred, reg_sum) ==
    IF \E x \in DOMAIN pred : IsNaN(pred[x]) THEN NaN ELSE FInt(reg_sum)

\* reg_loss: 0 * pred_offsets.sum() without positives, else the summed DIoU
\* loss divided by the normalizer
RegLoss(num_pos, pred, reg_sum, normalizer) ==
    IF num_pos = 0
    THEN FMul(FInt(0), SumOver(pred, DOMAIN pred))
    ELSE FDiv(ctr_diou_loss_1d(pred, reg_sum), normalizer)

\* loss_weight: the configured constant when positive, else
\* cls_loss.detach() / max(reg_loss.item(), 0.01)
LossWeight(train_loss_weight, cls_loss, reg_loss) ==
    IF train_loss_weight > 0
    THEN FInt(train_loss_weight)
    ELSE FDiv(cls_loss, FMax(reg_loss, <<1, 100>>))

FinalLoss(cls_loss, reg_loss, loss_weight) ==
    FAdd(cls_loss, FMul(reg_loss, loss_weight))

\* the shape of the regression targets label_points_single_video() returns
\* for one video: (num_pts, num_classes, 2) from the multi-label branch (line
\* 743), (num_pts, 2) from the single-label branch (line 766) and, in either
\* mode, from the early return for a video without segments (lines 672-675)
reg_targets_shape(c, empty_gt) ==
    IF c.multi_label /\ ~empty_gt
    THEN <<NumPts, c.num_classes, 2>>
    ELSE <<NumPts, 2>>

\* the shape of pos_mask for one video (lines 804-808): gt_cls itself in
\* multi-label mode, gt_cls.sum(-1) in single-label mode
pos_mask_shape(c) ==
    IF c.multi_label THEN <<NumPts, c.num_classes>> ELSE <<NumPts>>

\* torch.stack(gt_offsets)[pos_mask] (lines 818 and 821): indexing with a
\* boolean mask raises IndexError unless the shape of the mask is the leading
\* part of the shape of the indexed tensor
gt_offsets_raise(c, empty_gt) ==
    LET m == pos_mask_shape(c)
        t == reg_targets_shape(c, empty_gt)
    IN  ~(Len(m) <= Len(t) /\ SubSeq(t, 1, Len(m)) = m)

\* the inputs of one call of losses(): per-level valid lengths, the
\* classification targets (the classes set at each point), whether the video
\* has no segment at all (then no class is set anywhere), the focal loss of
\* each (position, class) entry, the decoded offsets of each position (1, or
\* NaN at the second position), the GIoU loss of each position and the value
\* the DIoU loss sums to: a uniform focal loss comes with a GIoU loss of 1/2
\* everywhere, a focal loss growing with the position with a GIoU loss of 0;
\* the logits have two classes or three
LossArgs ==
  {a \in
    [fpn_lens : {<<2, 1>>, <<1, 1>>, <<1, 0>>},
     gt_cls   : {f \in [Pts -> {{}, {0}, {0, 1}}] : f[1] # {0, 1} /\ f[2] # {0}},
     empty_gt : BOOLEAN,
     focal    : {[q \in Pts \X Classes |-> 1], [q \in Pts \X Classes |-> q[1] + 1],
                 [q \in Pts \X (0..2) |-> 1]},
     decoded  : {[p \in Pts |-> FInt(1)],
                 [p \in Pts |-> IF p = 1 THEN NaN ELSE FInt(1)]},
     giou     : {[p \in Pts |-> FInt(0)], [p \in Pts |-> <<1, 2>>]},
     reg_sum  : {2}] :
    /\ (a.giou[0] = <<1, 2>>) <=> (a.focal[<<0, 0>>] = a.focal[<<1, 0>>])
    /\ a.empty_gt => \A p \in Pts : a.gt_cls[p] = {}}

NoArgs == [none |-> TRUE]
NoRes == [none |-> TRUE]

\* forward() in training mode reaches losses() with the batch's targets
CallLossesWith(inputs) ==
    /\ pc = "idle"
    /\ training
    /\ steps < MaxSteps
    /\ \E a \in inputs :
          /\ DOMAIN a.focal = Pts \X (0..(cfg.num_classes - 1))
          /\ args' = a
    /\ res' = NoRes
    /\ pc' = "losses"
    /\ UNCHANGED <<cfg, training, loss_normalizer, steps>>
CallLosses == CallLossesWith(LossArgs)

\* the body of losses(): the targets at the positives (where line 818 or 821
\* may raise, before anything is assigned), then the update of the normalizer
\* and the three losses
Losses ==
    /\ pc = "losses"
    /\ IF gt_offsets_raise(cfg, args.empty_gt)
       THEN /\ res' = [error |-> "IndexError"]
            /\ pc' = "raised"
            /\ UNCHANGED <<loss_normalizer, steps>>
       ELSE
       LET vmask == valid_mask(args.fpn_lens)
           num_pos == Cardinality(pos_mask(cfg.multi_label, args.gt_cls, vmask))
           norm == UpdateNormalizer(loss_normalizer, num_pos)
           pred == pred_offsets(cfg, args.gt_cls, vmask, args.decoded)
           cls_loss == ClsLoss(iou_coupled(cfg, sigmoid_focal_loss(args.focal, vmask),
                                           args.gt_cls,
                                           ctr_giou_loss_1d(pred, args.giou)),
                               norm)
           reg_loss == RegLoss(num_pos, pred, args.reg_sum, norm)
           loss_weight == LossWeight(cfg.train_loss_weight, cls_loss, reg_loss)
       IN  /\ loss_normalizer' = norm
           /\ res' = [num_pos |-> num_pos,
                      cls_loss |-> cls_loss,
                      reg_loss |-> reg_loss,
                      final_loss |-> FinalLoss(cls_loss, reg_loss, loss_weight)]
           /\ steps' = steps + 1
           /\ pc' = "idle"
    /\ UNCHANGED <<cfg, training, args>>

\* the configurations explored for the training loop
\* (iou_weight_power is read with the Trident head only; the powers 0 and 2
\* are explored in single-label mode with the configured loss weight and the
\* initial value 2, three classes in multi-label mode with the power 1, the
\* configured loss weight and the initial value 2)
TrainCfg ==
    {c \in [multi_label : BOOLEAN,
            use_trident_head : BOOLEAN,
            num_classes : {2, 3},
            init_loss_norm : {0, 2},
            train_loss_weight : {1, -1},
            iou_weight_power : {0, 1, 2}] :
        /\ c.iou_weight_power # 1 =>
              /\ c.use_trident_head /\ ~c.multi_label
              /\ c.train_loss_weight = 1 /\ c.init_loss_norm = 2
        /\ c.num_classes # 2 =>
              /\ c.multi_label /\ c.iou_weight_power = 1
              /\ c.train_loss_weight = 1 /\ c.init_loss_norm = 2}

\* self.loss_normalizer = train_cfg['init_loss_norm']
Init ==
    /\ cfg \in TrainCfg
    /\ training = TRUE
    /\ loss_normalizer = FInt(cfg.init_loss_norm)
    /\ steps = 0
    /\ pc = "idle"
    /\ args = NoArgs
    /\ res = NoRes

Next == CallLosses \/ Losses

Spec == Init /\ [][Next]_vars

----------------------------------------------------------------------------
(* Point generator and label assigner: TriDet.label_points_single_video *)

\* times are integers in units of 1/TimeScale of a feature-grid step
TimeScale == 1000
\* 1e-3, the tolerance of the shortest-duration tie
TieTolerance == 1

\* The durations are float32 tensors, and two segments of one exact duration
\* may differ in their computed one.  A float32 value >= 0 is the pair
\* <<M, s>> that stands for M / 2^s with 2^23 <= M < 2^24, <<0, 0>> for 0 and
\* F32Inf for float('inf').
RECURSIVE Pow2(_)
Pow2(n) == IF n = 0 THEN 1 ELSE 2 * Pow2(n - 1)
F32Zero == <<0, 0>>
F32Inf == <<0, -1>>

\* x < y and x <= y
F32Lt(x, y) ==
    IF x = F32Inf THEN FALSE
    ELSE IF y = F32Inf THEN TRUE
    ELSE IF x = F32Zero THEN y # F32Zero
    ELSE IF y = F32Zero THEN FALSE
    ELSE x[2] > y[2] \/ (x[2] = y[2] /\ x[1] < y[1])
F32Leq(x, y) == x = y \/ F32Lt(x, y)

\* the float32 nearest to x / 2^s, ties to the even mantissa, for an
\* integer 0 <= x < 2^30
RECURSIVE F32Round(_, _)
F32Round(x, s) ==
    IF x = 0 THEN F32Zero
    ELSE IF x < Pow2(23) THEN F32Round(2 * x, s + 1)
    ELSE IF x < Pow2(24) THEN <<x, s>>
    ELSE LET sh == CHOOSE j \in 1..7 : x \div Pow2(j) < Pow2(24)
             q == x \div Pow2(sh)
             r == x % Pow2(sh)
             half == Pow2(sh - 1)
             m == IF r > half \/ (r = half /\ q % 2 = 1) THEN q + 1 ELSE q
         IN  IF m = Pow2(24) THEN <<Pow2(23), s - sh - 1>> ELSE <<m, s - sh>>

\* the float32 nearest to k / TimeScale, for an integer time 0 <= k < 2^21
\* units: k / TimeScale is x / ((TimeScale / 8) * 2^s) with x = k * 2^(s - 3)
F32OfMs(k) ==
    IF k = 0 THEN F32Zero
    ELSE LET RECURSIVE Norm(_, _)
             Norm(x, s) ==
                 IF x >= (TimeScale \div 8) * Pow2(23) THEN <<x, s>>
                 ELSE Norm(2 * x, s + 1)
             n == Norm(k, 3)
             m == (n[1] + (TimeScale \div 16)) \div (TimeScale \div 8)
         IN  IF m = Pow2(24) THEN <<Pow2(23), n[2] - 1>> ELSE <<m, n[2]>>

\* a + b (sign 1) or a - b (sign -1) in float32 for finite a >= b >= 0: the
\* exact result with three guard bits and a sticky bit, then rounded
F32Combine(a, b, sign) ==
    IF b = F32Zero THEN a
    ELSE LET d == b[2] - a[2]
             A == 8 * a[1]
             B == 8 * b[1]
             q == IF d > 27 THEN 0 ELSE B \div Pow2(d)
             sticky == IF d > 27 \/ B % Pow2(d) # 0 THEN 1 ELSE 0
             X == IF sign > 0 THEN 2 * (A + q) + sticky ELSE 2 * (A - q) - sticky
         IN  F32Round(X, a[2] + 4)
F32Add(a, b) ==
    IF a = F32Inf \/ b = F32Inf THEN F32Inf
    ELSE IF F32Leq(b, a) THEN F32Combine(a, b, 1) ELSE F32Combine(b, a, 1)
F32Sub(a, b) == F32Combine(a, b, -1)

\* the pyramid the label assigner is explored on: the lengths of its two
\* levels follow max_seq_len, and self.reg_range = regression_range; where
\* the configuration names neither, 4 points and the ranges [0, 3], [3, 10000]
DefaultRange == <<<<0, 3 * TimeScale>>, <<3 * TimeScale, 10000 * TimeScale>>>>
LabelLevelLen ==
    IF "max_seq_len" \in DOMAIN cfg
    THEN <<cfg.max_seq_len, cfg.max_seq_len \div fpn_strides[2]>>
    ELSE <<4, 2>>
reg_range ==
    IF "regression_range" \in DOMAIN cfg THEN cfg.regression_range ELSE DefaultRange

\* the points of one level: (t, range_min, range_max, stride), the position
\* being the centre stride * (i + 0.5) of cell i
LevelPoints(l, len) ==
    [i \in 1..len |->
        [t |-> (fpn_strides[l] * (2 * (i - 1) + 1) * TimeScale) \div 2,
         rmin |-> reg_range[l][1],
         rmax |-> reg_range[l][2],
         stride |-> fpn_strides[l]]]

\* concat_points = torch.cat(points, dim=0)
concat_points == LevelPoints(1, LabelLevelLen[1]) \o LevelPoints(2, LabelLevelLen[2])
LabelPts == 1..Len(concat_points)

\* left / right: distance of point p to the boundaries of segment seg
RegLeft(p, seg) == concat_points[p].t - seg[1]
RegRight(p, seg) == seg[2] - concat_points[p].t

\* inside_gt_seg_mask, computed on doubled times so that the segment centre
\* 0.5 * (start + end) stays an integer
MutInsideNoClip(center_sample, radius, p, seg) ==
    IF center_sample = "radius"
    THEN LET center2 == seg[1] + seg[2]
             t_min2 == center2 - 2 * concat_points[p].stride * radius
             t_max2 == center2 + 2 * concat_points[p].stride * radius
             cb_dist_left == 2 * concat_points[p].t - t_min2
             cb_dist_right == t_max2 - 2 * concat_points[p].t
         IN  Min(cb_dist_left, cb_dist_right) > 0
    ELSE Min(RegLeft(p, seg), RegRight(p, seg)) > 0
inside_gt_seg_mask(center_sample, radius, p, seg) ==
    IF center_sample = "radius"
    THEN LET center2 == seg[1] + seg[2]
             t_min2 == center2 - 2 * concat_points[p].stride * radius
             t_max2 == center2 + 2 * concat_points[p].stride * radius
             cb_dist_left == 2 * concat_points[p].t - Max(t_min2, 2 * seg[1])
             cb_dist_right == Min(t_max2, 2 * seg[2]) - 2 * concat_points[p].t
         IN  Min(cb_dist_left, cb_dist_right) > 0
    ELSE Min(RegLeft(p, seg), RegRight(p, seg)) > 0

\* inside_regress_range: max(left, right) within the level's range
MutRangeNoUpper(p, seg) ==
    Max(RegLeft(p, seg), RegRight(p, seg)) >= concat_points[p].rmin
MutRangeNoLower(p, seg) ==
    Max(RegLeft(p, seg), RegRight(p, seg)) <= concat_points[p].rmax
inside_regress_range(p, seg) ==
    LET max_regress_distance == Max(RegLeft(p, seg), RegRight(p, seg))
    IN  /\ max_regress_distance >= concat_points[p].rmin
        /\ max_regress_distance <= concat_points[p].rmax

\* gt_segment[:, 1] - gt_segment[:, 0] (line 678): the float32 difference of
\* the float32 boundaries of a segment, start <= end
seg_len(seg) == F32Sub(F32OfMs(seg[2]), F32OfMs(seg[1]))

\* lens after the two masked_fill_: the duration, or inf where a check fails
lens(c, gt_segment, p, n) ==
    IF /\ inside_gt_seg_mask(c.train_center_sample, c.train_center_sample_radius,
                             p, gt_segment[n])
       /\ inside_regress_range(p, gt_segment[n])
    THEN seg_len(gt_segment[n])
    ELSE F32Inf

\* lens.min(dim=1): the minimum and the index of its first occurrence
RECURSIVE MinOver(_, _)
MinOver(f, n) ==
    IF n = 1 THEN f[1]
    ELSE LET m == MinOver(f, n - 1) IN IF F32Lt(f[n], m) THEN f[n] ELSE m
min_len(c, gt_segment, p) ==
    MinOver([n \in 1..Len(gt_segment) |-> lens(c, gt_segment, p, n)], Len(gt_segment))
MutMinLenIndsUnmasked(c, gt_segment, p) ==
    CHOOSE n \in 1..Len(gt_segment) :
        \A m \in 1..Len(gt_segment) :
            \/ F32Lt(seg_len(gt_segment[n]), seg_len(gt_segment[m]))
            \/ (seg_len(gt_segment[n]) = seg_len(gt_segment[m]) /\ n <= m)
min_len_inds(c, gt_segment, p) ==
    CHOOSE n \in 1..Len(gt_segment) :
        /\ lens(c, gt_segment, p, n) = min_len(c, gt_segment, p)
        /\ \A m \in 1..(n - 1) : lens(c, gt_segment, p, m) # min_len(c, gt_segment, p)

\* min_len_mask: within the tolerance of the minimum (the float32 sum
\* min_len + 1e-3), and finite
MutMinLenMaskExact(c, gt_segment, p, n) ==
    /\ F32Leq(lens(c, gt_segment, p, n), min_len(c, gt_segment, p))
    /\ F32Lt(lens(c, gt_segment, p, n), F32Inf)
min_len_mask(c, gt_segment, p, n) ==
    /\ F32Leq(lens(c, gt_segment, p, n),
              F32Add(min_len(c, gt_segment, p), F32OfMs(TieTolerance)))
    /\ F32Lt(lens(c, gt_segment, p, n), F32Inf)

\* len_mask of the multi-label branch: every segment passing both checks
len_mask(c, gt_segment, p, n) == F32Lt(lens(c, gt_segment, p, n), F32Inf)

\* the segments that count for point p in the mode of the configuration
MutAssignMaskAll(c, gt_segment, p, n) == len_mask(c, gt_segment, p, n)
MutAssignMaskShortest(c, gt_segment, p, n) == min_len_mask(c, gt_segment, p, n)
AssignMask(c, gt_segment, p, n) ==
    IF c.multi_label
    THEN len_mask(c, gt_segment, p, n)
    ELSE min_len_mask(c, gt_segment, p, n)

\* cls_targets = mask @ one_hot(gt_label), clamped to [0, 1]
MutClsTargetsAnyInside(c, gt_segment, gt_label) ==
    [p \in LabelPts |-> [k \in Classes |->
        Min(1, Cardinality({n \in 1..Len(gt_segment) :
                  /\ inside_gt_seg_mask(c.train_center_sample,
                        c.train_center_sample_radius, p, gt_segment[n])
                  /\ gt_label[n] = k}))]]
cls_targets(c, gt_segment, gt_label) ==
    [p \in LabelPts |-> [k \in Classes |->
        Max(0, Min(1, Cardinality({n \in 1..Len(gt_segment) :
                  AssignMask(c, gt_segment, p, n) /\ gt_label[n] = k})))]]

\* a regression target: (left, right) of one segment, divided by the stride
RegOf(p, seg) ==
    <<Frac(RegLeft(p, seg), concat_points[p].stride),
      Frac(RegRight(p, seg), concat_points[p].stride)>>
ZeroReg == <<FInt(0), FInt(0)>>

\* single label: reg_targets[range(num_pts), min_len_inds] / stride
reg_targets(c, gt_segment) ==
    [p \in LabelPts |-> RegOf(p, gt_segment[min_len_inds(c, gt_segment, p)])]

\* multi label: multi_target[pos_t_idx, pos_cls_idx] = reg_targets[...]; where
\* several segments of one class pass at a point the indexed assignment has
\* duplicate indices and any one of them may be the value left: `pick` names,
\* for each such pair, the segment whose value stays
MultiCandidates(c, gt_segment, gt_label, p, k) ==
    {n \in 1..Len(gt_segment) : len_mask(c, gt_segment, p, n) /\ gt_label[n] = k}
multi_target(c, gt_segment, gt_label, pick) ==
    [p \in LabelPts |-> [k \in Classes |->
        LET cand == MultiCandidates(c, gt_segment, gt_label, p, k)
        IN  IF cand = {} THEN ZeroReg
            ELSE IF pick \in cand THEN RegOf(p, gt_segment[pick])
            ELSE RegOf(p, gt_segment[CHOOSE n \in cand : \A m \in cand : n >= m])]]

\* the whole of label_points_single_video
LabelPointsSingleVideo(c, gt_segment, gt_label, pick) ==
    IF Len(gt_segment) = 0
    THEN [cls |-> [p \in LabelPts |-> [k \in Classes |-> 0]],
          reg |-> [p \in LabelPts |-> ZeroReg],
          per_class |-> FALSE]
    ELSE IF c.multi_label
    THEN [cls |-> cls_targets(c, gt_segment, gt_label),
          reg |-> multi_target(c, gt_segment, gt_label, pick),
          per_class |-> TRUE]
    ELSE [cls |-> cls_targets(c, gt_segment, gt_label),
          reg |-> reg_targets(c, gt_segment),
          per_class |-> FALSE]

\* ground-truth segments explored: <<start, end>> in feature-grid units
GtSegs == {0, 1} \X {2 * TimeScale, 2 * TimeScale + 1, 4 * TimeScale}
GtInputs ==
    UNION {[1..n -> GtSegs \X Classes] : n \in 0..MaxGts}

LabelCfg ==
    [multi_label : BOOLEAN,
     train_center_sample : {"radius", "none"},
     train_center_sample_radius : {TimeScale \div 2, (3 * TimeScale) \div 2},
     max_seq_len : {4},
     regression_range : {DefaultRange}]

\* the configurations and the sample of the end-to-end scenario: 24 points of
\* stride 1 with the regression range [0, 16], 12 of stride 2 above it, and
\* the one segment [10, 20]
ScenarioRange == <<<<0, 16 * TimeScale>>, <<16 * TimeScale, 10000 * TimeScale>>>>
ScenarioCfg ==
    [multi_label : BOOLEAN,
     train_center_sample : {"radius", "none"},
     train_center_sample_radius : {(3 * TimeScale) \div 2},
     max_seq_len : {24},
     regression_range : {ScenarioRange}]
ScenarioSegment == <<10 * TimeScale, 20 * TimeScale>>

InitLabel ==
    /\ training = TRUE
    /\ loss_normalizer = FInt(1)
    /\ steps = 0
    /\ pc = "label"
    /\ \/ /\ cfg \in {c \in LabelCfg : c.train_center_sample = "none"
                          => c.train_center_sample_radius = (3 * TimeScale) \div 2}
          /\ \E g \in GtInputs :
                args = [gt_segment |-> [n \in 1..Len(g) |-> g[n][1]],
                        gt_label |-> [n \in 1..Len(g) |-> g[n][2]]]
       \/ /\ cfg \in ScenarioCfg
          /\ \E k \in Classes :
                args = [gt_segment |-> <<ScenarioSegment>>, gt_label |-> <<k>>]
    /\ res = NoRes

\* label_points calls label_points_single_video on the sample
LabelPoints ==
    /\ pc = "label"
    /\ \E pick \in 1..Max(1, Len(args.gt_segment)) :
          res' = LabelPointsSingleVideo(cfg, args.gt_segment, args.gt_label, pick)
    /\ pc' = "labelled"
    /\ UNCHANGED <<cfg, training, loss_normalizer, steps, args>>

SpecLabel == InitLabel /\ [][LabelPoints]_vars

----------------------------------------------------------------------------
(* Properties of the loss normalizer *)

\* the positives of a call, counted from its arguments: points with a class
\* set (pairs of point and class in multi-label mode) at valid positions
ValidAt(a, p) == PosInLevel(p) < a.fpn_lens[LevelOf(p)]
NumPositives(multi_label, a) ==
    LET valid(p) == ValidAt(a, p)
    IN  IF multi_label
        THEN Cardinality({q \in Pts \X Classes : valid(q[1]) /\ q[2] \in a.gt_cls[q[1]]})
        ELSE Cardinality({p \in Pts : valid(p) /\ a.gt_cls[p] # {}})
\* the classification loss of the entry (p, k) of a call: its focal loss,
\* rescaled with the Trident head by (1 - GIoU loss) ** iou_weight_power when
\* the class k is set at p
EntryLoss(a, p, k) ==
    IF cfg.use_trident_head /\ k \in a.gt_cls[p] /\ cfg.iou_weight_power > 0
    THEN IF IsNaN(a.decoded[p]) THEN NaN
         ELSE LET w == FAdd(FInt(1), FMul(FInt(-1), a.giou[p]))
              IN  FMul(FInt(a.focal[<<p, k>>]),
                       IF cfg.iou_weight_power = 1 THEN w ELSE FMul(w, w))
    ELSE FInt(a.focal[<<p, k>>])
\* the classification losses of the entries at the valid positions 0..p of a
\* call, summed up
RECURSIVE FocalUpTo(_, _)
FocalUpTo(a, p) ==
    IF p < 0 THEN FInt(0)
    ELSE FAdd(IF ValidAt(a, p)
              THEN FAdd(FAdd(EntryLoss(a, p, 0), EntryLoss(a, p, 1)),
                        IF <<p, 2>> \in DOMAIN a.focal
                        THEN EntryLoss(a, p, 2) ELSE FInt(0))
              ELSE FInt(0),
              FocalUpTo(a, p - 1))
\* the positives of a call whose decoded offset is NaN
NaNPositive(multi_label, a) ==
    \E p \in Pts : ValidAt(a, p) /\ a.gt_cls[p] # {} /\ IsNaN(a.decoded[p])

\* C1: every call of losses() changes the loss normalizer exactly once, to
\* 0.9 * prev + 0.1 * max(num_pos, 1), with prev the value the previous step
\* left (or the initial value) and num_pos the positives inside the valid
\* mask; cls_loss and reg_loss of the step are the summed losses divided by
\* the updated value; nothing else changes the normalizer.
C1_NormalizerUpdate ==
    [][ /\ (pc = "losses" /\ pc' = "idle") =>
            LET np == NumPositives(cfg.multi_label, args)
                prev == loss_normalizer
                new == loss_normalizer'
            IN  /\ 10 * new[1] * prev[2] = new[2] * (9 * prev[1] + Max(np, 1) * prev[2])
                /\ new[2] > 0
                /\ steps' = steps + 1
                /\ res'.num_pos = np
                /\ res'.cls_loss = FDiv(FocalUpTo(args, NumPts - 1), new)
                /\ ~NaNPositive(cfg.multi_label, args) =>
                     res'.reg_loss[1] * new[1] =
                       (IF np = 0 THEN 0 ELSE args.reg_sum) * new[2] * res'.reg_loss[2]
        /\ ~(pc = "losses" /\ pc' = "idle") => loss_normalizer' = loss_normalizer
      ]_vars

\* a second step with two positives after a first step without any, from the
\* initial value 2: 0.9 * (0.9 * 2 + 0.1) + 0.1 * 2 = 1.91
C1_Witness ==
    /\ pc = "idle"
    /\ steps = 2
    /\ cfg.init_loss_norm = 2
    /\ res.num_pos = 2
    /\ loss_normalizer = <<191, 100>>
    /\ cfg.use_trident_head /\ cfg.iou_weight_power = 1
    /\ \A p \in Pts : args.giou[p] = <<1, 2>>
    /\ res.cls_loss = <<500, 191>>

----------------------------------------------------------------------------
(* Properties of the label assigner *)

Labelled == pc = "labelled"
NumGts == Len(args.gt_segment)
Duration(n) == args.gt_segment[n][2] - args.gt_segment[n][1]

\* segment n passes the inside check of the configured policy and the
\* regression-range check at point p
Satisfies(p, n) ==
    /\ inside_gt_seg_mask(cfg.train_center_sample, cfg.train_center_sample_radius,
                          p, args.gt_segment[n])
    /\ inside_regress_range(p, args.gt_segment[n])
SatisfyingAt(p) == {n \in 1..NumGts : Satisfies(p, n)}

\* the satisfying segments whose duration is within 1e-3 of the shortest one
ShortestAt(p) ==
    {n \in SatisfyingAt(p) :
        \A m \in SatisfyingAt(p) : Duration(n) <= Duration(m) + TieTolerance}

\* the classes set in the classification target of point p
ClassesSet(p) == {k \in Classes : res.cls[p][k] # 0}

\* C2: single-label mode: at every point the classes set in the
\* classification target are exactly the labels of the segments that pass
\* both checks there and whose duration is within 1e-3 of the shortest
\* duration among the segments passing both checks.
C2_SingleLabelShortest ==
    (Labelled /\ ~cfg.multi_label) =>
        \A p \in LabelPts :
            /\ ClassesSet(p) = {args.gt_label[n] : n \in ShortestAt(p)}
            /\ \A k \in Classes : res.cls[p][k] \in {0, 1}

\* two segments of different classes pass at one point, their durations one
\* tolerance apart, and the classes of both are set there
C2_Witness ==
    /\ Labelled /\ ~cfg.multi_label
    /\ \E p \in LabelPts : \E n, m \in SatisfyingAt(p) :
          /\ Duration(m) = Duration(n) + TieTolerance
          /\ args.gt_label[n] # args.gt_label[m]
          /\ ClassesSet(p) = Classes

\* C3: at every point where no segment passes both the inside check and the
\* regression-range check the classification target is all zero; a sample
\* without segments gets all-zero classification and regression targets.
C3_BackgroundIsZero ==
    Labelled =>
        /\ \A p \in LabelPts :
              SatisfyingAt(p) = {} => \A k \in Classes : res.cls[p][k] = 0
        /\ NumGts = 0 =>
              \A p \in LabelPts :
                  /\ \A k \in Classes : res.cls[p][k] = 0
                  /\ res.reg[p] = ZeroReg

\* a segment is inside at a point but out of that level's regression range,
\* so the point stays background, while another point is assigned
C3_Witness ==
    /\ Labelled
    /\ NumGts = 1
    /\ \E p \in LabelPts :
          /\ inside_gt_seg_mask(cfg.train_center_sample,
                 cfg.train_center_sample_radius, p, args.gt_segment[1])
          /\ ~inside_regress_range(p, args.gt_segment[1])
          /\ ClassesSet(p) = {}
    /\ \E p \in LabelPts : ClassesSet(p) # {}

\* C4 as stated: single-label mode: every point has at most one class set.
C4_AtMostOneClass ==
    (Labelled /\ ~cfg.multi_label) =>
        \A p \in LabelPts : Cardinality(ClassesSet(p)) <= 1

\* C4 amended: single-label mode: a point has at most one class set unless
\* segments of different classes pass both checks there with durations within
\* 1e-3 of the shortest; in that case the class of each of them is set.
C4_OneClassUnlessTied ==
    (Labelled /\ ~cfg.multi_label) =>
        \A p \in LabelPts :
            /\ Cardinality(ClassesSet(p)) <= Cardinality(ShortestAt(p))
            /\ (\A n, m \in ShortestAt(p) : args.gt_label[n] = args.gt_label[m])
                  => Cardinality(ClassesSet(p)) <= 1
            /\ (\E n, m \in ShortestAt(p) : args.gt_label[n] # args.gt_label[m])
                  => Cardinality(ClassesSet(p)) > 1

\* two segments of different classes pass at one point with durations far
\* apart, and only the class of the shorter one is set there
C4_Witness ==
    /\ Labelled /\ ~cfg.multi_label
    /\ NumGts = 2
    /\ args.gt_label[1] # args.gt_label[2]
    /\ Duration(1) >= Duration(2) + TimeScale
    /\ \E p \in LabelPts :
          SatisfyingAt(p) = {1, 2} /\ ClassesSet(p) = {args.gt_label[2]}

----------------------------------------------------------------------------
(* Offset decoder: the windows built in losses() and in                     *)
(* inference_single_video(), and TriDet.decode_offset                       *)

\* A logit x is carried as w = exp(x): 0 stands for a logit whose exponential
\* is 0 (-inf), 1 for the logit 0, WNaN for a NaN logit.  Adding logits
\* multiplies their exponentials.
WNaN == -1
WAdd(a, b) == IF a = WNaN \/ b = WNaN THEN WNaN ELSE a * b

\* a function as the table of its values
Tabulate(f) == f @@ <<>>

RECURSIVE SumTo(_, _)
SumTo(f, n) == IF n < 0 THEN 0 ELSE f[n] + SumTo(f, n - 1)
RECURSIVE FSumTo(_, _)
FSumTo(f, n) == IF n < 0 THEN FInt(0) ELSE FAdd(f[n], FSumTo(f, n - 1))

\* torch.softmax(logits, dim=-1) of one row of num_bins + 1 logits: NaN
\* throughout when a logit is NaN or when every exponential is 0
softmax(logits, nb) ==
    LET row == Tabulate(logits)
        total == SumTo(row, nb)
    IN  IF (\E j \in 0..nb : row[j] = WNaN) \/ total = 0
        THEN Tabulate([j \in 0..nb |-> NaN])
        ELSE Tabulate([j \in 0..nb |-> Frac(row[j], total)])

\* left_range_idx = arange(max_range_num - 1, -1, -1), right_range_idx =
\* arange(max_range_num), with max_range_num = pred_left_dis.shape[-1]
MutLeftRangeIdxShort(nb, j) == nb - 1 - j
left_range_idx(nb, j) == (nb + 1) - 1 - j
right_range_idx(nb, j) == j

\* torch.matmul(dis, range_idx): the expectation, NaN if any term is NaN
Expectation(dis, idx, nb) ==
    IF \E j \in 0..nb : IsNaN(dis[j])
    THEN NaN
    ELSE FSumTo(Tabulate([j \in 0..nb |-> FMul(dis[j], FInt(idx[j]))]), nb)

\* lines 485-497 on the two distributions of one position and class: both
\* masked_fill calls test torch.isnan(pred_right_dis)
DecodeDistributions(pred_left_dis, pred_right_dis, nb) ==
    LET left_filled == Tabulate([j \in 0..nb |->
            IF IsNaN(pred_right_dis[j]) THEN FInt(0) ELSE pred_left_dis[j]])
        right_filled == Tabulate([j \in 0..nb |->
            IF IsNaN(pred_right_dis[j]) THEN FInt(0) ELSE pred_right_dis[j]])
    IN  <<Expectation(left_filled, [j \in 0..nb |-> left_range_idx(nb, j)], nb),
          Expectation(right_filled, [j \in 0..nb |-> right_range_idx(nb, j)], nb)>>

\* the bins the regression head is built with, and its output channels
model_bins(c) ==
    IF c.use_trident_head
    THEN (IF c.multi_label THEN (c.num_bins + 1) * num_classes - 1 ELSE c.num_bins)
    ELSE (IF c.multi_label THEN num_classes - 1 ELSE 0)
RegChannels(c) == 2 * (model_bins(c) + 1)

\* the samples of a training batch
Batch == {0, 1}
BatchSize == Cardinality(Batch)

\* row-major strides of a contiguous tensor of the given 4-d / 3-d size
Strides4(size) == <<size[2] * size[3] * size[4], size[3] * size[4], size[4], 1>>
Strides3(size) == <<size[2] * size[3], size[3], 1>>

\* the head outputs the paths read, as the logit at (row, place) of a tensor
\* whose last dimension has length T: the sample's own [C, T] output in
\* inference, and in training the [B, C, T] batch holding the sample at index
\* b, the other sample holding the logit ln 5 everywhere
Filler == 5 * 1
HeadRow(x, T, row, t) == x[row * T + t]
BatchRow(x, b, T, row, t) ==
    IF row \div num_classes = b THEN x[(row % num_classes) * T + t] ELSE Filler

\* element k of the contiguous storage F.pad(x, (num_bins, 0)) and
\* F.pad(x, (0, num_bins)) allocate, rows of T + num_bins, the padding being
\* the logit 0; `inside` is x at (row, place), read only off the padding
PadLeftPlace(T, nb, k) == (k % (T + nb)) - nb
PadRightPlace(T, nb, k) == IF k % (T + nb) >= T THEN -1 ELSE k % (T + nb)
PadRow(T, nb, k) == k \div (T + nb)

\* x.as_strided(size, stride)[i]: the place in the storage, the sum of index
\* times stride
AsStrided4(stride, i) ==
    i[1] * stride[1] + i[2] * stride[2] + i[3] * stride[3] + i[4] * stride[4]
AsStrided3(stride, i) ==
    i[1] * stride[1] + i[2] * stride[2] + i[3] * stride[3]

\* losses(), lines 781-797: out_start_logits[i] / out_end_logits[i] at
\* [b, t, k, j] after permute(0, 2, 1, 3)
TrainXStride(T, nb) ==
    LET x_stride == Strides4(<<BatchSize, num_classes, T + nb, 1>>)
    IN  [x_stride EXCEPT ![3] = x_stride[4]]
out_start_logits(c, a, l, b, t, k, j) ==
    LET T == LevelLen[l]
        e == AsStrided4(TrainXStride(T, c.num_bins), <<b, k, t, j>>)
        place == PadLeftPlace(T, c.num_bins, e)
    IN  IF place < 0 THEN 1
        ELSE BatchRow(a.out_start[l], a.b, T, PadRow(T, c.num_bins, e), place)
out_end_logits(c, a, l, b, t, k, j) ==
    LET T == LevelLen[l]
        e == AsStrided4(TrainXStride(T, c.num_bins), <<b, k, t, j>>)
        place == PadRightPlace(T, c.num_bins, e)
    IN  IF place < 0 THEN 1
        ELSE BatchRow(a.out_end[l], a.b, T, PadRow(T, c.num_bins, e), place)

\* the regression head's output of level l for the sample at [t, ch]; in the
\* batch the other sample holds Filler
OffsetAt(a, l, t, ch, K) == a.out_offsets[l][t * K + ch]
BatchOffsetAt(a, l, b, t, ch, K) ==
    IF b = a.b THEN OffsetAt(a, l, t, ch, K) ELSE Filler

\* torch.cat(..., dim=1): point p of the concatenation is position
\* PosInLevel(p) of level LevelOf(p)
CatPoint(l, t) == IF l = 1 THEN t ELSE LevelLen[1] + t

\* a value of the direct regression head as a number
DirectVal(v) == IF v = WNaN THEN NaN ELSE FInt(v)

\* the view of the concatenated out_offsets taken by decode_offset with
\* self.training set: view(shape[:2] + (2, num_classes, -1))[:, :, side, :] or
\* view(shape[:2] + (2, -1))[:, :, side, :], at [b, p, k, j]
TrainOffsetView(c, a, b, p, side, k, j) ==
    LET K == RegChannels(c)
        per == IF c.multi_label THEN K \div (2 * num_classes) ELSE K \div 2
    IN  IF c.multi_label
        THEN BatchOffsetAt(a, LevelOf(p), b, PosInLevel(p),
                           (side * num_classes + k) * per + j, K)
        ELSE BatchOffsetAt(a, LevelOf(p), b, PosInLevel(p), side * per + j, K)

\* pred_left_dis / pred_right_dis of the training path (lines 462-474)
TrainLeftDis(c, a, b, p, k) ==
    softmax([j \in 0..c.num_bins |->
        WAdd(out_start_logits(c, a, LevelOf(p), b, PosInLevel(p), k, j),
             TrainOffsetView(c, a, b, p, 0, k, j))], c.num_bins)
TrainRightDis(c, a, b, p, k) ==
    softmax([j \in 0..c.num_bins |->
        WAdd(out_end_logits(c, a, LevelOf(p), b, PosInLevel(p), k, j),
             TrainOffsetView(c, a, b, p, 1, k, j))], c.num_bins)

\* decode_offset with self.training set, at [b, p, k]
TrainDecodeAt(c, a, b, p, k) ==
    LET l == LevelOf(p)
        t == PosInLevel(p)
        K == RegChannels(c)
    IN  IF ~c.use_trident_head
        THEN IF c.multi_label
             \* reshape(shape[:-1] + (num_classes, -1))
             THEN <<DirectVal(BatchOffsetAt(a, l, b, t, k * (K \div num_classes), K)),
                    DirectVal(BatchOffsetAt(a, l, b, t, k * (K \div num_classes) + 1, K))>>
             ELSE <<DirectVal(BatchOffsetAt(a, l, b, t, 0, K)),
                    DirectVal(BatchOffsetAt(a, l, b, t, 1, K))>>
        ELSE DecodeDistributions(TrainLeftDis(c, a, b, p, k),
                                 TrainRightDis(c, a, b, p, k), c.num_bins)

\* inference_single_video(), lines 974-992: left / right of level l at
\* [k, t, j], from the sample's own [C, T] logits
MutInferXStrideUnpadded(T, nb) ==
    LET x_stride == Strides3(<<num_classes, T, 1>>)
    IN  [x_stride EXCEPT ![2] = x_stride[3]]
InferXStride(T, nb) ==
    LET x_stride == Strides3(<<num_classes, T + nb, 1>>)
    IN  [x_stride EXCEPT ![2] = x_stride[3]]
InferLeft(c, a, l, k, t, j) ==
    LET T == LevelLen[l]
        e == AsStrided3(InferXStride(T, c.num_bins), <<k, t, j>>)
        place == PadLeftPlace(T, c.num_bins, e)
    IN  IF place < 0 THEN 1
        ELSE HeadRow(a.out_start[l], T, PadRow(T, c.num_bins, e), place)
InferRight(c, a, l, k, t, j) ==
    LET T == LevelLen[l]
        e == AsStrided3(InferXStride(T, c.num_bins), <<k, t, j>>)
        place == PadRightPlace(T, c.num_bins, e)
    IN  IF place < 0 THEN 1
        ELSE HeadRow(a.out_end[l], T, PadRow(T, c.num_bins, e), place)

\* the view of out_offsets taken by decode_offset without self.training:
\* view(T, 2, num_classes, -1)[:, side, :] or view(T, 2, -1)[None, :, side, :]
MutInferOffsetViewClassMajor(c, a, l, t, side, k, j) ==
    LET K == RegChannels(c)
        per == IF c.multi_label THEN K \div (2 * num_classes) ELSE K \div 2
    IN  IF c.multi_label
        THEN OffsetAt(a, l, t, (k * 2 + side) * per + j, K)
        ELSE OffsetAt(a, l, t, side * per + j, K)
InferOffsetView(c, a, l, t, side, k, j) ==
    LET K == RegChannels(c)
        per == IF c.multi_label THEN K \div (2 * num_classes) ELSE K \div 2
    IN  IF c.multi_label
        THEN OffsetAt(a, l, t, (side * num_classes + k) * per + j, K)
        ELSE OffsetAt(a, l, t, side * per + j, K)

\* pred_left_dis / pred_right_dis of the inference path (lines 476-483)
InferLeftDis(c, a, l, t, k) ==
    softmax([j \in 0..c.num_bins |->
        WAdd(InferLeft(c, a, l, k, t, j), InferOffsetView(c, a, l, t, 0, k, j))],
        c.num_bins)
InferRightDis(c, a, l, t, k) ==
    softmax([j \in 0..c.num_bins |->
        WAdd(InferRight(c, a, l, k, t, j), InferOffsetView(c, a, l, t, 1, k, j))],
        c.num_bins)

\* decode_offset without self.training for level l, then the indexing of
\* lines 996-1005 at (pt_idx, cls_idx) = (t, k)
InferDecodeAt(c, a, l, t, k) ==
    LET K == RegChannels(c)
    IN  IF ~c.use_trident_head
        THEN IF c.multi_label
             THEN <<DirectVal(OffsetAt(a, l, t, k * (K \div num_classes), K)),
                    DirectVal(OffsetAt(a, l, t, k * (K \div num_classes) + 1, K))>>
             ELSE <<DirectVal(OffsetAt(a, l, t, 0, K)),
                    DirectVal(OffsetAt(a, l, t, 1, K))>>
        ELSE DecodeDistributions(InferLeftDis(c, a, l, t, k),
                                 InferRightDis(c, a, l, t, k), c.num_bins)

\* the (level, position, class) triples of the pyramid
Triples == {x \in Levels \X (0..1) \X Classes : x[2] < LevelLen[x[1]]}

\* the configurations of the decoder: the four variants
DecodeCfg ==
    [multi_label : BOOLEAN, use_trident_head : BOOLEAN, num_bins : {1, 2}]

\* head outputs explored: every logit 0 (every direct offset 1) except at most
\* two entries.  The entries are numbered: regression head, then (with the
\* Trident head) start head and end head, each level after level.  The
\* regression head ends with F.relu (RegHead.forward): of a logit carried as
\* its exponential w that is max(w, 1), of a direct offset v it is max(v, 0);
\* the values drawn for its entries are those before relu, -2 a negative
\* direct offset.
MutReluIdentity(c, v) == v
relu(c, v) ==
    IF v = WNaN THEN WNaN
    ELSE IF c.use_trident_head THEN Max(v, 1)
    ELSE Max(v, 0)
HeadLen(c, l) == IF c.use_trident_head THEN num_classes * LevelLen[l] ELSE 0
OffLen(c, l) == LevelLen[l] * RegChannels(c)
FirstHead(c) == OffLen(c, 1) + OffLen(c, 2)
NumEntries(c) == FirstHead(c) + 2 * (HeadLen(c, 1) + HeadLen(c, 2))
EntryValues(c, e) ==
    IF e < FirstHead(c)
    THEN (IF c.use_trident_head THEN {2, 3, WNaN} ELSE {-2, 2, 3, WNaN})
    ELSE {0, 2, WNaN}
PairValues(c, e) == IF e < FirstHead(c) THEN {2, WNaN} ELSE {0, WNaN}
Overrides(c) ==
    {<<>>}
    \cup {<<<<e, v>>>> : e \in 0..(NumEntries(c) - 1), v \in {-2, 0, 2, 3, WNaN}}
    \cup {<<<<e[1], v[1]>>, <<e[2], v[2]>>>> :
            e \in {x \in (0..(NumEntries(c) - 1)) \X (0..(NumEntries(c) - 1)) : x[1] < x[2]},
            v \in {0, 2, WNaN} \X {0, 2, WNaN}}
OverridesOk(c, ov) ==
    /\ Len(ov) = 1 => ov[1][2] \in EntryValues(c, ov[1][1])
    /\ Len(ov) = 2 => \A i \in 1..2 : ov[i][2] \in PairValues(c, ov[i][1])
ValueAt(ov, e) ==
    IF Len(ov) >= 1 /\ ov[1][1] = e THEN ov[1][2]
    ELSE IF Len(ov) >= 2 /\ ov[2][1] = e THEN ov[2][2]
    ELSE 1
HeadOutputs(c, ov) ==
    [out_offsets |-> [l \in Levels |-> [i \in 0..(OffLen(c, l) - 1) |->
                      relu(c, ValueAt(ov, (IF l = 1 THEN 0 ELSE OffLen(c, 1)) + i))]],
     out_start |-> [l \in Levels |-> [i \in 0..(HeadLen(c, l) - 1) |->
                      ValueAt(ov, FirstHead(c) + (IF l = 1 THEN 0 ELSE HeadLen(c, 1)) + i)]],
     out_end |-> [l \in Levels |-> [i \in 0..(HeadLen(c, l) - 1) |->
                      ValueAt(ov, FirstHead(c) + HeadLen(c, 1) + HeadLen(c, 2)
                                  + (IF l = 1 THEN 0 ELSE HeadLen(c, 1)) + i)]]]

InitDecode ==
    /\ cfg \in DecodeCfg
    /\ training = TRUE
    /\ loss_normalizer = FInt(1)
    /\ steps = 0
    /\ pc = "decode_train"
    /\ \E ov \in Overrides(cfg), n \in {0, BatchSize * NumPts} :
          /\ OverridesOk(cfg, ov)
          /\ args = [b |-> BatchSize - 1, num_pos |-> n] @@ HeadOutputs(cfg, ov)
    /\ res = NoRes

\* losses() builds the windows of every level, decodes the whole batch and
\* updates the normalizer with the positives of the batch (none, or every
\* point of every sample); it leaves self.training alone
DecodeInLosses ==
    /\ pc = "decode_train"
    /\ training
    /\ res' = [train |-> [x \in Triples |->
                  TrainDecodeAt(cfg, args, args.b, CatPoint(x[1], x[2]), x[3])]]
    /\ loss_normalizer' = UpdateNormalizer(loss_normalizer, args.num_pos)
    /\ steps' = steps + 1
    /\ pc' = "decode_eval"
    /\ UNCHANGED <<cfg, training, args>>

\* model.eval() between the training step and the inference call
DecodeSetEval ==
    /\ pc = "decode_eval"
    /\ training' = FALSE
    /\ pc' = "decode_infer"
    /\ UNCHANGED <<cfg, loss_normalizer, steps, args, res>>

\* inference_single_video() builds the windows and decodes level by level
DecodeInInference ==
    /\ pc = "decode_infer"
    /\ ~training
    /\ res' = [train |-> res.train,
               infer |-> [x \in Triples |-> InferDecodeAt(cfg, args, x[1], x[2], x[3])]]
    /\ pc' = "decoded"
    /\ UNCHANGED <<cfg, training, loss_normalizer, steps, args>>

NextDecode == DecodeInLosses \/ DecodeSetEval \/ DecodeInInference

SpecDecode == InitDecode /\ [][NextDecode]_vars

----------------------------------------------------------------------------
(* Properties of the offset decoder *)

TrainDecoded == pc \in {"decode_eval", "decode_infer", "decoded"}
InferDecoded == pc = "decoded"
Trident == cfg.use_trident_head

\* the distributions the two paths decode at a triple (level, position, class)
LeftDisOfTrain(x) == TrainLeftDis(cfg, args, args.b, CatPoint(x[1], x[2]), x[3])
RightDisOfTrain(x) == TrainRightDis(cfg, args, args.b, CatPoint(x[1], x[2]), x[3])
LeftDisOfInfer(x) == InferLeftDis(cfg, args, x[1], x[2], x[3])
RightDisOfInfer(x) == InferRightDis(cfg, args, x[1], x[2], x[3])

IsNaNDis(dis) == \E j \in 0..cfg.num_bins : IsNaN(dis[j])
OneHotAt(dis, b) ==
    \A j \in 0..cfg.num_bins : dis[j] = (IF j = b THEN FInt(1) ELSE FInt(0))
Finite(x) == x[2] > 0

\* C5 as stated: distribution mode: a NaN left distribution and a NaN right
\* distribution are both replaced by zeros, so no decoded left or right
\* offset is NaN, whichever side the NaN arises on.
C5_NoNaNOffset ==
    (TrainDecoded /\ Trident) =>
        \A x \in Triples : ~IsNaN(res.train[x][1]) /\ ~IsNaN(res.train[x][2])

\* C6 as stated: distribution mode: with the distributions of a position
\* one-hot, the left one at bin b and the right one at bin b2, the decoded
\* left offset is num_bins - 1 - b and the decoded right offset is b2.
C6_OneHotLeftShort ==
    (InferDecoded /\ Trident) =>
        \A x \in Triples : \A b, b2 \in 0..cfg.num_bins :
            (OneHotAt(LeftDisOfInfer(x), b) /\ OneHotAt(RightDisOfInfer(x), b2))
                => res.infer[x] = <<FInt(cfg.num_bins - 1 - b), FInt(b2)>>

\* C6 amended: distribution mode: with the distributions of a position
\* one-hot, the left one at bin b and the right one at bin b2, the decoded
\* left offset is exactly num_bins - b and the decoded right offset exactly
\* b2, on the training path and on the inference path.
C6_OneHotDecodes ==
    (InferDecoded /\ Trident) =>
        \A x \in Triples : \A b, b2 \in 0..cfg.num_bins :
            /\ (OneHotAt(LeftDisOfInfer(x), b) /\ OneHotAt(RightDisOfInfer(x), b2))
                  => res.infer[x] = <<FInt(cfg.num_bins - b), FInt(b2)>>
            /\ (OneHotAt(LeftDisOfTrain(x), b) /\ OneHotAt(RightDisOfTrain(x), b2))
                  => res.train[x] = <<FInt(cfg.num_bins - b), FInt(b2)>>

\* at one position the left distribution is one-hot at bin 1 and the right one
\* at bin 1, decoded to (0, 1); at another the left one is one-hot at bin 0
C6_Witness ==
    /\ InferDecoded /\ Trident
    /\ \E x \in Triples :
          /\ OneHotAt(LeftDisOfInfer(x), 1)
          /\ OneHotAt(RightDisOfInfer(x), 1)
          /\ res.infer[x] = <<FInt(cfg.num_bins - 1), FInt(1)>>
          /\ res.train[x] = res.infer[x]

\* C7 as stated: distribution mode: every decoded left and right offset is
\* finite and lies in [0, num_bins], for every position, class and logits.
C7_OffsetsInRange ==
    (TrainDecoded /\ Trident) =>
        \A x \in Triples : \A side \in 1..2 :
            /\ Finite(res.train[x][side])
            /\ 0 <= res.train[x][side][1]
            /\ res.train[x][side][1] <= cfg.num_bins * res.train[x][side][2]

\* C8: for the same head outputs of a sample, the offsets decoded at every
\* (level, position, class) on the training path (batched, windows per level,
\* concatenated over the levels) equal those decoded on the inference path
\* (the sample alone, level by level), in each of the four variants.
C8_TrainEqualsInference ==
    InferDecoded => \A x \in Triples : res.train[x] = res.infer[x]

\* multi-label Trident decoding whose offsets differ between the two classes
\* of one position and are no NaN, equal on both paths
C8_Witness ==
    /\ InferDecoded /\ Trident /\ cfg.multi_label
    /\ cfg.num_bins = 2
    /\ \E l \in Levels : \E t \in 0..(LevelLen[l] - 1) :
          /\ res.infer[<<l, t, 0>>] # res.infer[<<l, t, 1>>]
          /\ res.train[<<l, t, 0>>] = res.infer[<<l, t, 0>>]
          /\ \A k \in Classes : \A side \in 1..2 : Finite(res.infer[<<l, t, k>>][side])
          /\ res.infer[<<l, t, 0>>][1] # FInt(1)

----------------------------------------------------------------------------
(* inference_single_video(): the candidates of one sample, level by level    *)

\* cls_i.sigmoid(): a classification logit is carried as the pair <<a, b>>
\* of its exponential a / b, and sigmoid(x) = e^x / (1 + e^x) = a / (a + b)
sigmoid(e) == Frac(e[1], e[1] + e[2])

\* line 954: (cls_i.sigmoid() * mask_i.unsqueeze(-1)).flatten(), entry
\* t * num_classes + k being class k of position t
MutPredProbUnmasked(a, l) ==
    Tabulate([i \in 0..(LevelLen[l] * num_classes - 1) |-> sigmoid(a.out_cls[l][i])])
pred_prob(a, l) ==
    LET vmask == valid_mask(a.fpn_lens)
    IN  Tabulate([i \in 0..(LevelLen[l] * num_classes - 1) |->
            FMul(sigmoid(a.out_cls[l][i]),
                 FInt(IF vmask[CatPoint(l, i \div num_classes)] THEN 1 ELSE 0))])

\* line 958: keep_idxs1 = (pred_prob > self.test_pre_nms_thresh)
MutKeepIdxs1AtOrAbove(prob, thresh) == {i \in DOMAIN prob : FLeq(thresh, prob[i])}
keep_idxs1(prob, thresh) == {i \in DOMAIN prob : FLt(thresh, prob[i])}

\* line 960: keep_idxs1.nonzero(): the kept indices in increasing order
nonzero(keep) ==
    [r \in 1..Cardinality(keep) |->
        CHOOSE i \in keep : Cardinality({j \in keep : j < i}) = r - 1]

\* line 964: pred_prob.sort(descending=True): the orders a sort may return,
\* any order of equal values being possible
MutSortOrdersUnsorted(v) == Permutations(1..Len(v))
SortOrders(v) ==
    {o \in Permutations(1..Len(v)) :
        \A r \in 1..(Len(v) - 1) : FLeq(v[o[r + 1]], v[o[r]])}

\* lines 959-972 for the order `idxs` returned by the sort
Survivors(prob, thresh) ==
    LET idx0 == nonzero(keep_idxs1(prob, thresh))
    IN  [r \in 1..Len(idx0) |-> prob[idx0[r]]]
TopK(prob, thresh, topk, idxs) ==
    LET keep == keep_idxs1(prob, thresh)
        idx0 == nonzero(keep)
        num_topk == Min(topk, Len(idx0))
        topk_idxs == [r \in 1..num_topk |-> idx0[idxs[r]]]
    IN  [keep_idxs1 |-> keep,
         pred_prob |-> [r \in 1..num_topk |-> prob[idx0[idxs[r]]]],
         topk_idxs |-> topk_idxs,
         pt_idxs |-> [r \in 1..num_topk |-> topk_idxs[r] \div num_classes],
         cls_idxs |-> [r \in 1..num_topk |-> topk_idxs[r] % num_classes]]

FSub(x, y) == FAdd(x, FMul(FInt(-1), y))

\* lines 994-1012: the segment of retained entry r of level l, on the grid
PredSeg(c, a, l, top, r) ==
    LET offsets == InferDecodeAt(c, a, l, top.pt_idxs[r], top.cls_idxs[r])
        pts == LevelPoints(l, LevelLen[l])[top.pt_idxs[r] + 1]
    IN  <<FSub(Frac(pts.t, TimeScale), FMul(offsets[1], FInt(pts.stride))),
          FAdd(Frac(pts.t, TimeScale), FMul(offsets[2], FInt(pts.stride)))>>

\* lines 1015-1016: keep_idxs2 = seg_areas > self.test_duration_thresh
MutKeepIdxs2AtOrAbove(c, segs) ==
    {r \in DOMAIN segs : FLeq(c.test_duration_thresh, FSub(segs[r][2], segs[r][1]))}
keep_idxs2(c, segs) ==
    {r \in DOMAIN segs : FLt(c.test_duration_thresh, FSub(segs[r][2], segs[r][1]))}

\* x[keep_idxs2]: the kept rows in their order
RECURSIVE Select(_, _, _)
Select(x, keep, r) ==
    IF r > Len(x) THEN <<>>
    ELSE (IF r \in keep THEN <<x[r]>> ELSE <<>>) \o Select(x, keep, r + 1)

\* torch.cat over the levels
RECURSIVE Cat(_)
Cat(xs) == IF xs = <<>> THEN <<>> ELSE Head(xs) \o Cat(Tail(xs))

\* the configurations of inference: the four variants, a threshold of 0 or
\* 0.1 before NMS, at most 2 entries per level, durations above 0.05 cells
\* or above 2 cells
InferCfg ==
    [multi_label : BOOLEAN, use_trident_head : BOOLEAN, num_bins : {2},
     test_pre_nms_thresh : {FInt(0), <<1, 10>>},
     test_pre_nms_topk : {2},
     test_duration_thresh : {<<1, 20>>, FInt(2)}]

\* classification logits explored: probabilities 0.05, 0.1 and 0.9 on the
\* first level, 0.05 throughout or 0.9 and 0.4 on the second
ScoreLogits == {<<1, 19>>, <<1, 9>>, <<9, 1>>}
HighLogit == <<9, 1>>
ClsLogits ==
    {<<x, y>> : x \in [0..(LevelLen[1] * num_classes - 1) -> ScoreLogits],
                y \in {[i \in 0..(LevelLen[2] * num_classes - 1) |-> <<1, 19>>],
                       [i \in 0..(LevelLen[2] * num_classes - 1) |->
                            IF i = 0 THEN HighLogit ELSE <<2, 3>>]}}
\* scores 0.9 and 0.4 at two (position, class) entries of the first level
\* and at the two classes of the second, 0.05 elsewhere
Ranked == <<[i \in 0..(LevelLen[1] * num_classes - 1) |->
                IF i = 0 THEN HighLogit
                ELSE IF i = LevelLen[1] * num_classes - 1 THEN <<2, 3>>
                ELSE <<1, 19>>],
            [i \in 0..(LevelLen[2] * num_classes - 1) |->
                IF i = 0 THEN HighLogit ELSE <<2, 3>>]>>
FpnLens == {<<2, 1>>, <<1, 1>>, <<1, 0>>}

\* direct regression: the left output of one (position, class) negative
\* before relu and its right output 3
SignedPairs(c) ==
    IF c.use_trident_head THEN {}
    ELSE {<<<<e, -2>>, <<e + 1, 3>>>> :
             e \in {x \in 0..(FirstHead(c) - 1) : x % 2 = 0}}

\* the inputs of a call: every combination of scores with the regression
\* outputs at their default, or ranked scores with one regression output
\* varied or with a pair of SignedPairs
InferInputs(c) ==
    {[fpn_lens |-> n, out_cls |-> x] @@ HeadOutputs(c, <<>>) :
        n \in FpnLens,
        x \in IF c.multi_label = c.use_trident_head
                 /\ c.test_duration_thresh # FInt(2)
              THEN ClsLogits ELSE {Ranked}}
    \cup
    {[fpn_lens |-> n, out_cls |-> Ranked] @@ HeadOutputs(c, ov) :
        n \in FpnLens,
        ov \in {o \in Overrides(c) : /\ Len(o) = 1
                                     /\ OverridesOk(c, o)
                                     /\ c.test_pre_nms_thresh # FInt(0)}
               \cup {o \in SignedPairs(c) : c.test_pre_nms_thresh # FInt(0)}}

InitInfer ==
    /\ cfg \in InferCfg
    /\ training = FALSE
    /\ loss_normalizer = FInt(1)
    /\ steps = 0
    /\ pc = "infer"
    /\ args \in InferInputs(cfg)
    /\ res = [lvl |-> 1, locals |-> <<>>,
              segs_all |-> <<>>, scores_all |-> <<>>, cls_idxs_all |-> <<>>]

\* one turn of the loop over the levels (lines 951-1021)
InferLevel ==
    /\ pc = "infer"
    /\ ~training
    /\ res.lvl <= NumLevels
    /\ LET l == res.lvl
           prob == pred_prob(args, l)
       IN  \E idxs \in SortOrders(Survivors(prob, cfg.test_pre_nms_thresh)) :
             LET top == TopK(prob, cfg.test_pre_nms_thresh,
                             cfg.test_pre_nms_topk, idxs)
                 pred_segs == [r \in DOMAIN top.pred_prob |->
                                  PredSeg(cfg, args, l, top, r)]
                 keep2 == keep_idxs2(cfg, pred_segs)
             IN  res' = [lvl |-> l + 1,
                         locals |-> Append(res.locals, top),
                         segs_all |-> Append(res.segs_all, Select(pred_segs, keep2, 1)),
                         scores_all |-> Append(res.scores_all,
                                               Select(top.pred_prob, keep2, 1)),
                         cls_idxs_all |-> Append(res.cls_idxs_all,
                                                 Select(top.cls_idxs, keep2, 1))]
    /\ UNCHANGED <<cfg, training, loss_normalizer, steps, pc, args>>

\* after the loop: torch.cat along the levels and the results (lines 1023-1031)
MutInferReturnCountsResults ==
    /\ pc = "infer"
    /\ res.lvl > NumLevels
    /\ res' = [locals |-> res.locals,
               segments |-> Cat(res.segs_all),
               scores |-> Cat(res.scores_all),
               labels |-> Cat(res.cls_idxs_all)]
    /\ loss_normalizer' = UpdateNormalizer(loss_normalizer, Len(Cat(res.segs_all)))
    /\ pc' = "inferred"
    /\ UNCHANGED <<cfg, training, steps, args>>
InferReturn ==
    /\ pc = "infer"
    /\ res.lvl > NumLevels
    /\ res' = [locals |-> res.locals,
               segments |-> Cat(res.segs_all),
               scores |-> Cat(res.scores_all),
               labels |-> Cat(res.cls_idxs_all)]
    /\ pc' = "inferred"
    /\ UNCHANGED <<cfg, training, loss_normalizer, steps, args>>

NextInfer == InferLevel \/ InferReturn

SpecInfer == InitInfer /\ [][NextInfer]_vars

----------------------------------------------------------------------------
(* Properties of the filters before NMS *)

\* the levels inference_single_video has gone through
Filtered == pc \in {"infer", "inferred"}
DoneLevels == IF Filtered THEN 1..Len(res.locals) ELSE {}
\* the score of flattened entry i of level l
Entries(l) == 0..(LevelLen[l] * num_classes - 1)
ScoreOf(l, i) ==
    IF (i \div num_classes) < args.fpn_lens[l]
    THEN sigmoid(args.out_cls[l][i]) ELSE FInt(0)
Range(f) == {f[r] : r \in DOMAIN f}

\* C9 as stated: on each level the threshold filter discards exactly the
\* entries whose score is below pre_nms_thresh, and passes on every entry
\* whose score is at or above pre_nms_thresh.
C9_PassesAtOrAbove ==
    \A l \in DoneLevels :
        res.locals[l].keep_idxs1 =
            {i \in Entries(l) : ~FLt(ScoreOf(l, i), cfg.test_pre_nms_thresh)}

\* C9 amended: on each level the threshold filter passes on exactly the
\* entries whose score is strictly above pre_nms_thresh; an entry whose score
\* equals pre_nms_thresh is discarded with those below it.
C9_PassesStrictlyAbove ==
    \A l \in DoneLevels :
        res.locals[l].keep_idxs1 =
            {i \in Entries(l) : FLt(cfg.test_pre_nms_thresh, ScoreOf(l, i))}

\* a level with an entry below the threshold and one equal to it, both
\* discarded, and one above it, passed on
C9_Witness ==
    /\ 1 \in DoneLevels
    /\ cfg.test_pre_nms_thresh = <<1, 10>>
    /\ \E i, j, k \in Entries(1) :
          /\ ScoreOf(1, i) = <<1, 20>> /\ i \notin res.locals[1].keep_idxs1
          /\ ScoreOf(1, j) = <<1, 10>> /\ j \notin res.locals[1].keep_idxs1
          /\ ScoreOf(1, k) = <<9, 10>> /\ k \in res.locals[1].keep_idxs1

\* the scenario of the specification: five scores, threshold 0.1, top 3
ExampleScores ==
    [i \in 0..4 |-> <<<<9, 10>>, <<4, 5>>, <<1, 20>>, <<19, 20>>, <<2, 5>>>>[i + 1]]
ExampleOutcomes ==
    {TopK(ExampleScores, <<1, 10>>, 3, idxs).pred_prob :
        idxs \in SortOrders(Survivors(ExampleScores, <<1, 10>>))}

\* C10: after the threshold filter each level keeps exactly the
\* min(pre_nms_topk, n) highest-scoring of its n surviving entries, in
\* descending score order, each paired with its own score, position
\* (index div num_classes) and class (index mod num_classes); the scores
\* 0.9, 0.8, 0.05, 0.95, 0.4 with threshold 0.1 and top 3 give 0.95, 0.9, 0.8.
C10_TopKDescending ==
    /\ \A l \in DoneLevels :
          LET top == res.locals[l]
              n == Cardinality(top.keep_idxs1)
              m == Min(cfg.test_pre_nms_topk, n)
          IN  /\ Len(top.pred_prob) = m
              /\ Len(top.topk_idxs) = m
              /\ Len(top.pt_idxs) = m
              /\ Len(top.cls_idxs) = m
              /\ Cardinality(Range(top.topk_idxs)) = m
              /\ Range(top.topk_idxs) \subseteq top.keep_idxs1
              /\ \A r \in 1..(m - 1) : FLeq(top.pred_prob[r + 1], top.pred_prob[r])
              /\ \A r \in 1..m :
                    /\ top.pred_prob[r] = ScoreOf(l, top.topk_idxs[r])
                    /\ top.pt_idxs[r] \in 0..(LevelLen[l] - 1)
                    /\ top.cls_idxs[r] \in Classes
                    /\ top.topk_idxs[r] = top.pt_idxs[r] * num_classes + top.cls_idxs[r]
                    /\ top.pred_prob[r] =
                          sigmoid(args.out_cls[l][top.pt_idxs[r] * num_classes
                                                  + top.cls_idxs[r]])
                    /\ \A i \in top.keep_idxs1 \ Range(top.topk_idxs) :
                          FLeq(ScoreOf(l, i), top.pred_prob[r])
    /\ ExampleOutcomes = {<<<<19, 20>>, <<9, 10>>, <<4, 5>>>>}

\* four entries of a level survive the threshold, the highest score last among
\* them; the two highest are kept, in descending order, at different
\* positions, and the two lowest are dropped
C10_Witness ==
    /\ 1 \in DoneLevels
    /\ LET top == res.locals[1]
       IN  /\ Cardinality(top.keep_idxs1) = 4
           /\ \E i \in top.keep_idxs1 : ScoreOf(1, i) = <<1, 20>>
           /\ Len(top.pred_prob) = 2
           /\ top.pred_prob = <<<<9, 10>>, <<1, 10>>>>
           /\ top.topk_idxs[1] > top.topk_idxs[2]
           /\ top.pt_idxs[1] # top.pt_idxs[2]
           /\ top.cls_idxs[1] = 1

----------------------------------------------------------------------------
(* Properties of the candidates of inference_single_video *)

\* the position of point t of level l: the centre of cell t
PositionOf(l, t) == Frac(fpn_strides[l] * (2 * t + 1), 2)

\* the candidates level l is expected to emit: for the retained entries in
\* their order, the segment around the point of the entry's own position,
\* with the offsets decoded for its own (position, class), its score and its
\* class, those with right - left > duration_thresh only
Emitted(c) == FLt(cfg.test_duration_thresh, FSub(c.seg[2], c.seg[1]))
CandidatesOf(l) ==
    LET top == res.locals[l]
    IN  [r \in 1..Len(top.topk_idxs) |->
            LET t == top.topk_idxs[r] \div num_classes
                k == top.topk_idxs[r] % num_classes
                off == InferDecodeAt(cfg, args, l, t, k)
            IN  [seg |-> <<FSub(PositionOf(l, t), FMul(off[1], FInt(fpn_strides[l]))),
                           FAdd(PositionOf(l, t), FMul(off[2], FInt(fpn_strides[l])))>>,
                 score |-> ScoreOf(l, top.topk_idxs[r]),
                 label |-> k]]
ExpectedOf(l) == SelectSeq(CandidatesOf(l), Emitted)
RECURSIVE ExpectedUpTo(_)
ExpectedUpTo(l) == IF l = 0 THEN <<>> ELSE ExpectedUpTo(l - 1) \o ExpectedOf(l)

\* C11: every emitted candidate has left = position - offset_left * stride
\* and right = position + offset_right * stride for the point and decoded
\* offsets of its own (position, class); a retained entry is emitted if and
\* only if right - left > duration_thresh; segments, scores and labels stay
\* index-aligned, level after level and in the concatenated result.
C11_SegmentsAligned ==
    /\ pc = "infer" =>
          \A l \in DoneLevels :
              LET e == ExpectedOf(l)
              IN  /\ res.segs_all[l] = [j \in 1..Len(e) |-> e[j].seg]
                  /\ res.scores_all[l] = [j \in 1..Len(e) |-> e[j].score]
                  /\ res.cls_idxs_all[l] = [j \in 1..Len(e) |-> e[j].label]
    /\ pc = "inferred" =>
          LET e == ExpectedUpTo(NumLevels)
          IN  /\ res.segments = [j \in 1..Len(e) |-> e[j].seg]
              /\ res.scores = [j \in 1..Len(e) |-> e[j].score]
              /\ res.labels = [j \in 1..Len(e) |-> e[j].label]

\* a call that retained two entries on the first level, dropped one of them
\* because its duration equals duration_thresh, and emitted candidates of
\* both levels with different labels
C11_Witness ==
    /\ pc = "inferred"
    /\ cfg.test_duration_thresh = FInt(2)
    /\ Len(res.locals[1].topk_idxs) = 2
    /\ Len(ExpectedOf(1)) = 1
    /\ \E r \in 1..2 : LET c == CandidatesOf(1)[r]
                       IN  FSub(c.seg[2], c.seg[1]) = FInt(2)
    /\ Len(ExpectedOf(2)) >= 1
    /\ Len(res.segments) = Len(ExpectedOf(1)) + Len(ExpectedOf(2))
    /\ \E i, j \in 1..Len(res.labels) : res.labels[i] # res.labels[j]

----------------------------------------------------------------------------
(* postprocessing(): suppression, then timestamps in seconds                  *)

FMin(x, y) == IF FLeq(x, y) THEN x ELSE y

\* IoU of two segments: intersection length / union length, 0 when disjoint
Iou(a, b) ==
    LET inter == FMax(FInt(0), FSub(FMin(a[2], b[2]), FMax(a[1], b[1])))
        union == FSub(FAdd(FSub(a[2], a[1]), FSub(b[2], b[1])), inter)
    IN  IF FLeq(union, FInt(0)) THEN FInt(0) ELSE FDiv(inter, union)

\* the indices of `rest` by descending score, the earlier index first among
\* equal scores
RECURSIVE ByScore(_, _)
ByScore(scores, rest) ==
    IF rest = {} THEN <<>>
    ELSE LET best == CHOOSE i \in rest : \A j \in rest \ {i} :
                        \/ FLt(scores[j], scores[i])
                        \/ (scores[j] = scores[i] /\ i < j)
         IN  <<best>> \o ByScore(scores, rest \ {best})

\* hard mode: keep the highest remaining, discard the others it suppresses
\* (those of its class only when multiclass), and go on with the rest
RECURSIVE Greedy(_, _, _)
Greedy(c, r, order) ==
    IF order = <<>> THEN <<>>
    ELSE LET h == Head(order)
             Suppressed(i) ==
                 /\ (c.test_multiclass_nms => r.labels[i] = r.labels[h])
                 /\ FLt(c.test_iou_threshold, Iou(r.segments[h], r.segments[i]))
             Stays(i) == ~Suppressed(i)
         IN  <<h>> \o Greedy(c, r, SelectSeq(Tail(order), Stays))

\* batched_nms in hard mode: suppression, the cap to max_seg_num by score,
\* then the filter score >= min_score; the indices returned, in their order
batched_nms(c, r) ==
    LET kept == Greedy(c, r, ByScore(r.scores, DOMAIN r.scores))
        capped == SubSeq(kept, 1, Min(c.test_max_seg_num, Len(kept)))
        Scored(i) == FLeq(c.test_min_score, r.scores[i])
    IN  SelectSeq(capped, Scored)

\* lines 1049-1060: the candidates after step 2
AfterNms(c, r) ==
    IF c.test_nms_method # "none"
    THEN LET keep == batched_nms(c, r)
         IN  [segments |-> [j \in 1..Len(keep) |-> r.segments[keep[j]]],
              scores |-> [j \in 1..Len(keep) |-> r.scores[keep[j]]],
              labels |-> [j \in 1..Len(keep) |-> r.labels[keep[j]]]]
    ELSE [segments |-> r.segments, scores |-> r.scores, labels |-> r.labels]

\* lines 1063-1066: one boundary from feature grids to seconds, truncated
MutToSecondsNoUpper(x, r) ==
    LET s == FDiv(FAdd(FMul(x, FInt(r.feat_stride)),
                       FMul(<<1, 2>>, FInt(r.feat_num_frames))), FInt(r.fps))
    IN  IF FLeq(s, FInt(0)) THEN FMul(s, FInt(0)) ELSE s
ToSeconds(x, r) ==
    LET s == FDiv(FAdd(FMul(x, FInt(r.feat_stride)),
                       FMul(<<1, 2>>, FInt(r.feat_num_frames))), FInt(r.fps))
        low == IF FLeq(s, FInt(0)) THEN FMul(s, FInt(0)) ELSE s
    IN  IF FLeq(r.duration, low) THEN FAdd(FMul(low, FInt(0)), r.duration) ELSE low

\* the configurations of postprocessing explored: no suppression or hard
\* suppression, jointly or per class, at most 1 or 2 segments returned
PostCfg ==
    [test_nms_method : {"none", "hard"},
     test_iou_threshold : {<<1, 4>>},
     test_min_score : {<<1, 2>>},
     test_max_seg_num : {1, 2},
     test_multiclass_nms : BOOLEAN]

\* the candidates of a video: up to three of them, on the feature grid, with
\* scores 0.9 or 0.4; and the video's meta information
CandSegs == {<<FInt(-3), FInt(1)>>, <<FInt(0), FInt(2)>>,
             <<FInt(1), FInt(3)>>, <<FInt(1), FInt(40)>>}
CandScores == {<<9, 10>>, <<2, 5>>}
Cands == [seg : CandSegs, score : CandScores, label : Classes]
CandLists ==
    {<<>>} \cup {<<x>> : x \in Cands} \cup {<<x, y>> : x, y \in Cands}
    \cup {<<x, y, z>> : x \in {c \in Cands : c.label = 0 /\ c.score = <<9, 10>>},
                        y \in {c \in Cands : c.label = 1 /\ c.score = <<2, 5>>},
                        z \in {c \in Cands : c.seg[2] = FInt(3)}}
VideoMeta ==
    [fps : {1, 2}, duration : {FInt(5)}, feat_stride : {1, 2},
     feat_num_frames : {2}]
PostInputs ==
    {[segments |-> [j \in 1..Len(x) |-> x[j].seg],
      scores |-> [j \in 1..Len(x) |-> x[j].score],
      labels |-> [j \in 1..Len(x) |-> x[j].label]] @@ m :
        x \in CandLists, m \in VideoMeta}

InitPost ==
    /\ cfg \in PostCfg
    /\ training = FALSE
    /\ loss_normalizer = FInt(1)
    /\ steps = 0
    /\ pc = "post"
    /\ args \in PostInputs
    /\ res = NoRes

\* postprocessing() of one video's results (lines 1038-1073); `grid` keeps
\* the segments of step 2, before their conversion
Postprocessing ==
    /\ pc = "post"
    /\ LET r == AfterNms(cfg, args)
       IN  res' = [grid |-> r.segments,
                   segments |-> IF Len(r.segments) > 0
                                THEN [j \in DOMAIN r.segments |->
                                         <<ToSeconds(r.segments[j][1], args),
                                           ToSeconds(r.segments[j][2], args)>>]
                                ELSE r.segments,
                   scores |-> r.scores,
                   labels |-> r.labels]
    /\ pc' = "posted"
    /\ UNCHANGED <<cfg, training, loss_normalizer, steps, args>>

SpecPost == InitPost /\ [][Postprocessing]_vars

----------------------------------------------------------------------------
(* Properties of postprocessing *)

Posted == pc = "posted"

\* C12 as stated: with the NMS mode 'none', postprocessing still applies the
\* score/count filtering: at most max_seg_num segments are returned and
\* every returned score is >= min_score.
C12_NoneStillFilters ==
    (Posted /\ cfg.test_nms_method = "none") =>
        /\ Len(res.segments) <= cfg.test_max_seg_num
        /\ \A j \in DOMAIN res.scores : FLeq(cfg.test_min_score, res.scores[j])

\* C13: every returned boundary is (grid_units * feat_stride
\* + 0.5 * feat_num_frames) / fps clamped to [0, duration]; all returned
\* boundaries lie in [0, duration]; start <= end is preserved.
InSeconds(x) ==
    FMax(FInt(0),
         FMin(args.duration,
              Frac(2 * x[1] * args.feat_stride + x[2] * args.feat_num_frames,
                   2 * x[2] * args.fps)))
C13_SecondsClamped ==
    Posted =>
        /\ Len(res.segments) = Len(res.grid)
        /\ \A j \in DOMAIN res.segments :
              /\ \A side \in 1..2 :
                    /\ res.segments[j][side] = InSeconds(res.grid[j][side])
                    /\ FLeq(FInt(0), res.segments[j][side])
                    /\ FLeq(res.segments[j][side], args.duration)
              /\ FLeq(res.grid[j][1], res.grid[j][2])
                    => FLeq(res.segments[j][1], res.segments[j][2])

\* a result with a start truncated to 0, an end truncated to the duration and
\* a boundary strictly inside
C13_Witness ==
    /\ Posted
    /\ \E i, j, k \in DOMAIN res.segments :
          /\ FLt(res.grid[i][1], FInt(-1)) /\ res.segments[i][1] = FInt(0)
          /\ FLt(args.duration, res.grid[j][2]) /\ res.segments[j][2] = args.duration
          /\ FLt(FInt(0), res.segments[k][1]) /\ FLt(res.segments[k][2], args.duration)

----------------------------------------------------------------------------
(* Properties of the losses *)

\* a training step has returned its losses
LossesDone == pc = "idle" /\ steps > 0

\* a call of losses() has ended, by returning its losses or by raising
LossesEnded == LossesDone \/ pc = "raised"

\* C14: a step whose batch has zero positive positions returns a regression
\* loss of exactly zero, and a final loss equal to the classification loss,
\* in the four variants and whatever the decoded offsets are.  It fails for
\* a multi-label batch of videos without segments when the class count is
\* not 2: the regression targets of such a video have the shape
\* (num_pts, 2), and the call raises where it takes them at pos_mask.
C14_ZeroPositivesZeroRegLoss ==
    (LossesEnded /\ NumPositives(cfg.multi_label, args) = 0) =>
        /\ pc = "idle"
        /\ res.reg_loss = FInt(0)
        /\ res.final_loss = res.cls_loss

\* the calls without positives that return do return a regression loss of
\* zero and the classification loss as the final loss
ZeroPositivesReturned ==
    (LossesDone /\ NumPositives(cfg.multi_label, args) = 0) =>
        /\ res.reg_loss = FInt(0)
        /\ res.final_loss = res.cls_loss

\* a call of either multi-label variant on a video without segments, with
\* three classes, has raised and left the normalizer as it was
EmptyGtRaised ==
    /\ pc = "raised"
    /\ cfg.multi_label /\ cfg.num_classes = 3 /\ args.empty_gt
    /\ res.error = "IndexError"
    /\ loss_normalizer = FInt(cfg.init_loss_norm)

\* the same video with two classes: the call returns, with no regression loss
EmptyGtReturned ==
    /\ LossesDone
    /\ cfg.multi_label /\ cfg.num_classes = 2 /\ args.empty_gt
    /\ res.reg_loss = FInt(0)

----------------------------------------------------------------------------
(* TriDet.__init__: the checks of the constructor                            *)

\* the arguments of the constructor that its assertions read: the number of
\* levels backbone_arch[-1] + 1, the number of regression ranges, the SGP
\* window sizes (0 for a single integer, else the length of the list), the
\* center-sample policy, the NMS mode, the backbone type and the neck type
CtorArgs ==
    [levels : 1..3, reg_ranges : 1..3, sgp_win_sizes : 0..3,
     center_sample : {"radius", "none", "box"},
     nms_method : {"soft", "hard", "none", "greedy"},
     backbone_type : {"SGP", "conv", "convTransformer"},
     fpn_type : {"fpn", "identity", "bifpn"},
     init_loss_norm : {2}]

\* the assertions of __init__ in their order: the line of the first one that
\* fails, 0 when all hold
MutFirstFailedAssertNoNms(a) ==
    IF a.levels # a.reg_ranges THEN 223
    ELSE IF a.sgp_win_sizes # 0 /\ a.sgp_win_sizes # a.levels THEN 236
    ELSE IF a.center_sample \notin {"radius", "none"} THEN 247
    ELSE IF a.backbone_type \notin {"SGP", "conv"} THEN 274
    ELSE IF a.fpn_type \notin {"fpn", "identity"} THEN 310
    ELSE 0
FirstFailedAssert(a) ==
    IF a.levels # a.reg_ranges THEN 223
    ELSE IF a.sgp_win_sizes # 0 /\ a.sgp_win_sizes # a.levels THEN 236
    ELSE IF a.center_sample \notin {"radius", "none"} THEN 247
    ELSE IF a.nms_method \notin {"soft", "hard", "none"} THEN 262
    ELSE IF a.backbone_type \notin {"SGP", "conv"} THEN 274
    ELSE IF a.fpn_type \notin {"fpn", "identity"} THEN 310
    ELSE 0

NoModel == [none |-> TRUE]

InitCtor ==
    /\ cfg = NoModel
    /\ training = TRUE
    /\ loss_normalizer = FInt(0)
    /\ steps = 0
    /\ pc = "new"
    /\ args \in CtorArgs
    /\ res = NoRes

\* TriDet(...): a failed assertion leaves no model object; otherwise the
\* object holds the configuration and the initial loss normalizer
Construct ==
    /\ pc = "new"
    /\ LET line == FirstFailedAssert(args)
       IN  IF line # 0
           THEN /\ pc' = "failed"
                /\ res' = [error |-> "AssertionError", line |-> line]
                /\ UNCHANGED <<cfg, loss_normalizer>>
           ELSE /\ pc' = "constructed"
                /\ cfg' = [fpn_levels |-> args.levels,
                           reg_range |-> args.reg_ranges,
                           train_center_sample |-> args.center_sample,
                           test_nms_method |-> args.nms_method]
                /\ loss_normalizer' = FInt(args.init_loss_norm)
                /\ res' = NoRes
    /\ UNCHANGED <<training, steps, args>>

SpecCtor == InitCtor /\ [][Construct]_vars

\* C15: construction fails, and produces no model object, when the number of
\* regression ranges differs from the number of levels, when the
\* center-sample policy is neither 'radius' nor 'none', or when the NMS mode
\* is none of 'soft', 'hard', 'none'; a constructed model has none of these.
InvalidConfig ==
    \/ args.reg_ranges # args.levels
    \/ args.center_sample \notin {"radius", "none"}
    \/ args.nms_method \notin {"soft", "hard", "none"}
C15_InvalidConfigFailsAtConstruction ==
    /\ (pc # "new" /\ InvalidConfig) =>
          pc = "failed" /\ cfg = NoModel /\ res.error = "AssertionError"
    /\ pc = "constructed" => (~InvalidConfig /\ cfg # NoModel)

\* a construction that failed on the NMS mode alone
C15_Witness ==
    /\ pc = "failed"
    /\ cfg = NoModel
    /\ args.reg_ranges = args.levels
    /\ args.center_sample = "radius"
    /\ args.nms_method = "greedy"
    /\ args.backbone_type = "SGP"
    /\ args.sgp_win_sizes = 0

\* positions masked out as padding to which the label assigner gave a class
MaskedTargets == {p \in Pts : ~ValidAt(args, p) /\ args.gt_cls[p] # {}}
ValidPositives ==
    IF cfg.multi_label
    THEN {q \in Pts \X Classes : ValidAt(args, q[1]) /\ q[2] \in args.gt_cls[q[1]]}
    ELSE {<<p>> : p \in {q \in Pts : ValidAt(args, q) /\ args.gt_cls[q] # {}}}

\* C16: a position masked out as padding is never counted as positive (it is
\* not in num_pos and not in the regression loss) and adds nothing to the
\* classification loss, even when its classification target is nonzero.
C16_MaskedNeverPositive ==
    LossesDone =>
        /\ res.num_pos = Cardinality(ValidPositives)
        /\ (\A x \in ValidPositives : ~IsNaN(args.decoded[x[1]])) =>
              res.reg_loss = (IF ValidPositives = {} THEN FInt(0)
                              ELSE FDiv(FInt(args.reg_sum), loss_normalizer))
        /\ res.cls_loss = FDiv(FocalUpTo(args, NumPts - 1), loss_normalizer)

\* a step with a valid positive and with a masked position that has a class
\* and a NaN decoded offset: it is not counted and the losses are finite
C16_Witness ==
    /\ LossesDone
    /\ \E p \in MaskedTargets : IsNaN(args.decoded[p])
    /\ res.num_pos = 1
    /\ Cardinality(ValidPositives) = 1
    /\ res.reg_loss = FDiv(FInt(args.reg_sum), loss_normalizer)
    /\ Finite(res.final_loss)

----------------------------------------------------------------------------
(* The end-to-end scenario of the label assigner *)

InScenario == Labelled /\ cfg.max_seq_len = 24 /\ args.gt_segment = <<ScenarioSegment>>
PosOf(p) == concat_points[p].t
\* point p is on the level of stride 1 and range [0, 16], inside [10, 20],
\* with max(left, right) <= 16
ScenarioPositive(p) ==
    /\ concat_points[p].stride = 1
    /\ 10 * TimeScale <= PosOf(p) /\ PosOf(p) <= 20 * TimeScale
    /\ Max(PosOf(p) - 10 * TimeScale, 20 * TimeScale - PosOf(p)) <= 16 * TimeScale
ScenarioReg(p) == <<Frac(PosOf(p) - 10 * TimeScale, 1), Frac(20 * TimeScale - PosOf(p), 1)>>
RegAt(p, k) == IF res.per_class THEN res.reg[p][k] ELSE res.reg[p]
ScenarioTargets(Positive(_)) ==
    \A p \in LabelPts :
        IF Positive(p)
        THEN /\ ClassesSet(p) = {args.gt_label[1]}
             /\ RegAt(p, args.gt_label[1]) = ScenarioReg(p)
        ELSE ClassesSet(p) = {}

\* C17 as stated: the scenario, under either center-sampling policy: every
\* position inside [10, 20] with max(left, right) <= 16 gets the segment's
\* class, every other position is background, and the regression target of
\* each such position is (position - 10, 20 - position).
C17_ScenarioAnyPolicy ==
    InScenario => ScenarioTargets(ScenarioPositive)

\* C17 amended: the same under the policy 'none'; under the policy 'radius'
\* the positions that get the class are those among them that also lie
\* within radius * stride of the centre 15 of the segment.
NearCentre(p) ==
    /\ ScenarioPositive(p)
    /\ cfg.train_center_sample = "radius" =>
          Abs(PosOf(p) - 15 * TimeScale) < cfg.train_center_sample_radius
C17_ScenarioByPolicy ==
    InScenario => ScenarioTargets(NearCentre)

\* the scenario under the policy 'none': ten positions 10.5 .. 19.5 have the
\* class, among them 10.5 with the regression target (0.5, 9.5)
C17_Witness ==
    /\ InScenario
    /\ cfg.train_center_sample = "none"
    /\ Cardinality({p \in LabelPts : ClassesSet(p) # {}}) = 10
    /\ \E p \in LabelPts :
          /\ 2 * PosOf(p) = 21 * TimeScale
          /\ ClassesSet(p) = {args.gt_label[1]}
          /\ RegAt(p, args.gt_label[1]) = <<Frac(TimeScale, 2), Frac(19 * TimeScale, 2)>>

----------------------------------------------------------------------------
(* Properties of the multi-label targets *)

\* C18: multi-label mode: the classification target at (position, class k)
\* is 1 if and only if at least one segment with label k passes the inside
\* check and the regression-range check at that position, whatever the
\* segments of other classes and the durations are; otherwise it is 0.
C18_MultiLabelPerClass ==
    (Labelled /\ cfg.multi_label) =>
        \A p \in LabelPts : \A k \in Classes :
            res.cls[p][k] =
                (IF \E n \in SatisfyingAt(p) : args.gt_label[n] = k THEN 1 ELSE 0)

\* two segments of different classes and of durations further apart than the
\* tolerance pass at one point, where both classes are set; at another point
\* one class only is set
C18_Witness ==
    /\ Labelled /\ cfg.multi_label
    /\ \E p \in LabelPts : \E n, m \in SatisfyingAt(p) :
          /\ Duration(m) > Duration(n) + TieTolerance
          /\ args.gt_label[n] # args.gt_label[m]
          /\ ClassesSet(p) = Classes
    /\ \E p \in LabelPts : Cardinality(ClassesSet(p)) = 1

\* C19 as stated: multi-label mode: for every sample, one without segments
\* included, the regression target is indexed by (position, class, side),
\* aligned with the classification target, and is (0, 0) at every
\* (position, class) whose classification target is 0.
C19_MultiLabelPerClassReg ==
    (Labelled /\ cfg.multi_label) =>
        /\ res.per_class
        /\ \A p \in LabelPts : \A k \in Classes :
              res.cls[p][k] = 0 => res.reg[p][k] = ZeroReg

----------------------------------------------------------------------------
(* forward(): training steps and inference calls on one model                *)

\* the models explored: single-label direct regression and multi-label
\* Trident head, hard NMS per class
ForwardCfg ==
    {[multi_label |-> b, use_trident_head |-> b, num_bins |-> 2,
      num_classes |-> num_classes,
      init_loss_norm |-> 2, train_loss_weight |-> 1, iou_weight_power |-> 1,
      test_pre_nms_thresh |-> <<1, 10>>, test_pre_nms_topk |-> 2,
      test_duration_thresh |-> <<1, 20>>, test_nms_method |-> "hard",
      test_iou_threshold |-> <<1, 4>>, test_min_score |-> <<1, 2>>,
      test_max_seg_num |-> 2, test_multiclass_nms |-> TRUE] : b \in BOOLEAN}

\* the batches of the training steps and the videos of the inference calls
ForwardLossArgs ==
    {a \in LossArgs : /\ a.fpn_lens = <<2, 1>>
                      /\ ~a.empty_gt
                      /\ \A q \in Pts \X Classes : a.focal[q] = 1
                      /\ \A p \in Pts : a.decoded[p] = FInt(1) /\ a.giou[p] = <<1, 2>>}
TiedHigh == <<[i \in 0..(LevelLen[1] * num_classes - 1) |->
                  IF i \in {0, LevelLen[1] * num_classes - 1} THEN HighLogit
                  ELSE <<1, 19>>],
              [i \in 0..(LevelLen[2] * num_classes - 1) |-> HighLogit]>>
ForwardMeta ==
    [fps |-> 1, duration |-> FInt(5), feat_stride |-> 1, feat_num_frames |-> 2]
ForwardInferInputs(c) ==
    {[fpn_lens |-> n, out_cls |-> x, video |-> ForwardMeta] @@ HeadOutputs(c, <<>>) :
        n \in {<<2, 1>>, <<1, 0>>}, x \in {Ranked, TiedHigh}}

InitForward ==
    /\ cfg \in ForwardCfg
    /\ training = TRUE
    /\ loss_normalizer = FInt(cfg.init_loss_norm)
    /\ steps = 0
    /\ pc = "idle"
    /\ args = NoArgs
    /\ res = NoRes

\* model.train() / model.eval() between two calls
SetMode ==
    /\ pc = "idle"
    /\ training' = ~training
    /\ UNCHANGED <<cfg, loss_normalizer, steps, pc, args, res>>

\* forward() with self.training: label_points and losses
ForwardTraining == CallLossesWith(ForwardLossArgs)

\* forward() without self.training reaches inference() with the head outputs
CallInference ==
    /\ pc = "idle"
    /\ ~training
    /\ args' \in ForwardInferInputs(cfg)
    /\ res' = [lvl |-> 1, locals |-> <<>>,
               segs_all |-> <<>>, scores_all |-> <<>>, cls_idxs_all |-> <<>>]
    /\ pc' = "infer"
    /\ UNCHANGED <<cfg, training, loss_normalizer, steps>>

\* inference() passes the video's meta information on to postprocessing
\* (lines 922-931)
CallPostprocessing ==
    /\ pc = "inferred"
    /\ args' = [segments |-> res.segments, scores |-> res.scores,
                labels |-> res.labels] @@ args.video
    /\ res' = NoRes
    /\ pc' = "post"
    /\ UNCHANGED <<cfg, training, loss_normalizer, steps>>

\* forward() returns the results
ForwardReturn ==
    /\ pc = "posted"
    /\ pc' = "idle"
    /\ UNCHANGED <<cfg, training, loss_normalizer, steps, args, res>>

NextForward ==
    \/ SetMode
    \/ ForwardTraining
    \/ Losses
    \/ CallInference
    \/ InferLevel
    \/ InferReturn
    \/ CallPostprocessing
    \/ Postprocessing
    \/ ForwardReturn

SpecForward == InitForward /\ [][NextForward]_vars

----------------------------------------------------------------------------
(* Properties of forward() *)

\* the candidates an inference call can return for the configuration c and
\* the head outputs a, one for each order the sort of each level may take
LevelCandidates(c, a, l, idxs) ==
    LET top == TopK(pred_prob(a, l), c.test_pre_nms_thresh, c.test_pre_nms_topk, idxs)
        segs == [r \in DOMAIN top.pred_prob |-> PredSeg(c, a, l, top, r)]
        keep2 == keep_idxs2(c, segs)
    IN  [segments |-> Select(segs, keep2, 1),
         scores |-> Select(top.pred_prob, keep2, 1),
         labels |-> Select(top.cls_idxs, keep2, 1)]
LevelOrders(c, a, l) == SortOrders(Survivors(pred_prob(a, l), c.test_pre_nms_thresh))
CallOutcomes(c, a) ==
    {[segments |-> x.segments \o y.segments,
      scores |-> x.scores \o y.scores,
      labels |-> x.labels \o y.labels] :
        x \in {LevelCandidates(c, a, 1, o) : o \in LevelOrders(c, a, 1)},
        y \in {LevelCandidates(c, a, 2, o) : o \in LevelOrders(c, a, 2)}}

\* the steps of an inference call
InferenceStep ==
    \/ pc \in {"infer", "inferred", "post", "posted"}
    \/ pc = "idle" /\ pc' = "infer"

\* C20: an inference call leaves the loss normalizer unchanged, as does
\* everything but the update of a training step, and the candidates it
\* returns are those of its own input, whatever the training steps and the
\* inference calls before it were; so the next training step sees the
\* normalizer the previous training step left.
C20_InferenceStateless ==
    [][ /\ InferenceStep => (loss_normalizer' = loss_normalizer /\ steps' = steps)
        /\ ~(pc = "losses" /\ pc' = "idle") => loss_normalizer' = loss_normalizer
        /\ pc' = "inferred" =>
              [segments |-> res'.segments, scores |-> res'.scores,
               labels |-> res'.labels] \in CallOutcomes(cfg, args)
      ]_vars

\* an inference call that returned a segment, after a training step that
\* moved the normalizer from 2 to 0.9 * 2 + 0.1 * 1 = 1.9
C20_Witness ==
    /\ pc = "idle"
    /\ ~training
    /\ steps = 1
    /\ loss_normalizer = <<19, 10>>
    /\ "segments" \in DOMAIN res
    /\ Len(res.segments) > 0

----------------------------------------------------------------------------
(* batched_nms in both modes, applied to its own output                      *)
(*                                                                          *)
(* A soft-NMS score is base * exp(-decay): the pair <<base, decay>> of two  *)
(* fractions, base > 0 and decay >= 0. exp of a nonzero fraction is never a *)
(* fraction, so two such scores are equal exactly when the pairs are, and   *)
(* their order is decided by bracketing exp with its Taylor sums.           *)

\* 1 + (x/k) * (1 + (x/(k+1)) * ( ... )): the Taylor sum of exp(x) up to
\* order n, for k = 1
RECURSIVE Horner(_, _, _)
Horner(x, k, n) ==
    IF k > n THEN FInt(1)
    ELSE FAdd(FInt(1), FMul(FDiv(x, FInt(k)), Horner(x, k + 1, n)))

\* exp(d) > q for a fraction d > 0 and odd n: the sum of order n of exp(d)
\* is below exp(d) and the sum of odd order n of exp(-d) is below exp(-d)
RECURSIVE ExpAboveAt(_, _, _)
ExpAboveAt(d, q, n) ==
    IF FLt(q, Horner(d, 1, n)) THEN TRUE
    ELSE IF FLt(FInt(1), FMul(q, Horner(FMul(FInt(-1), d), 1, n))) THEN FALSE
    ELSE ExpAboveAt(d, q, n + 2)
ExpAbove(d, q) == IF FLeq(q, FInt(1)) THEN TRUE ELSE ExpAboveAt(d, q, 1)

\* x < y for two scores base * exp(-decay)
DLt(x, y) ==
    LET d == FSub(x[2], y[2])
    IN  IF d = FInt(0) THEN FLt(x[1], y[1])
        ELSE IF FLt(FInt(0), d) THEN ExpAbove(d, FDiv(x[1], y[1]))
        ELSE ~ExpAbove(FMul(FInt(-1), d), FDiv(y[1], x[1]))
DLeq(x, y) == x = y \/ DLt(x, y)

\* score * exp(-iou^2 / sigma)
MutDecayNone(x, iou, sigma) == x
Decay(x, iou, sigma) == <<x[1], FAdd(x[2], FDiv(FMul(iou, iou), sigma))>>

\* soft mode: keep the highest remaining with its current score, decay the
\* scores of the others (those of its class only when multiclass) by
\* exp(-iou^2 / sigma), and go on with the rest
RECURSIVE SoftGreedy(_, _, _, _)
SoftGreedy(c, r, sc, rest) ==
    IF rest = {} THEN <<>>
    ELSE LET h == CHOOSE i \in rest : \A j \in rest \ {i} :
                     \/ DLt(sc[j], sc[i])
                     \/ (sc[j] = sc[i] /\ i < j)
             Decays(i) ==
                 /\ i \in rest \ {h}
                 /\ c.test_multiclass_nms => r.labels[i] = r.labels[h]
             next == [i \in DOMAIN sc |->
                         IF Decays(i)
                         THEN Decay(sc[i], Iou(r.segments[h], r.segments[i]),
                                    c.test_nms_sigma)
                         ELSE sc[i]]
         IN  <<[idx |-> h, score |-> sc[h]]>>
                 \o SoftGreedy(c, r, next, rest \ {h})

\* boundary voting: the candidates within the IoU band of a kept segment,
\* those whose IoU with it is at least voting_thresh, of whatever class (the
\* multiclass flag is about suppression)
VotingBand(c, r, seg) ==
    {i \in DOMAIN r.segments : FLeq(c.test_voting_thresh, Iou(seg, r.segments[i]))}

\* the mean of one boundary over a band, weighted by the scores
\* base * exp(-decay) the candidates came with.  Per decay d of the band, N(d)
\* is the sum of base * boundary and D(d) the sum of base; the mean is the
\* sum of exp(-d) * N(d) over the sum of exp(-d) * D(d).  The exponentials of
\* distinct fractions are linearly independent over the fractions, so the
\* mean is a fraction exactly when N(d) / D(d) is the same for every d, and is
\* that fraction; otherwise it is written as its terms d, N(d), D(d) by
\* increasing d, which no fraction equals
VotedBoundary(r, band, side) ==
    LET decays == {r.scores[i][2] : i \in band}
        Grp(d) == {i \in band : r.scores[i][2] = d}
        N(d) == SumOver([i \in Grp(d) |-> FMul(r.scores[i][1], r.segments[i][side])],
                        Grp(d))
        D(d) == SumOver([i \in Grp(d) |-> r.scores[i][1]], Grp(d))
        ratios == {FDiv(N(d), D(d)) : d \in decays}
        RECURSIVE Terms(_)
        Terms(ds) ==
            IF ds = {} THEN <<>>
            ELSE LET d == CHOOSE x \in ds : \A y \in ds : FLeq(x, y)
                 IN  d \o N(d) \o D(d) \o Terms(ds \ {d})
    IN  IF band = {} THEN NaN
        ELSE IF Cardinality(ratios) = 1 THEN CHOOSE q \in ratios : TRUE
        ELSE Terms(decays)

\* a kept segment after boundary voting: unchanged when voting_thresh is not
\* set, else each boundary replaced by the score-weighted mean over its band
seg_voting(c, r, seg) ==
    IF FLt(FInt(0), c.test_voting_thresh)
    THEN <<VotedBoundary(r, VotingBand(c, r, seg), 1),
           VotedBoundary(r, VotingBand(c, r, seg), 2)>>
    ELSE seg

\* batched_nms in soft mode: the decayed candidates, boundary voting, the
\* cap to max_seg_num by score, then the filter score >= min_score
soft_nms(c, r) ==
    LET kept == SoftGreedy(c, r, r.scores, DOMAIN r.scores)
        capped == SubSeq(kept, 1, Min(c.test_max_seg_num, Len(kept)))
        Scored(k) == DLeq(<<c.test_min_score, FInt(0)>>, k.score)
        out == SelectSeq(capped, Scored)
    IN  [segments |-> [j \in 1..Len(out) |-> seg_voting(c, r, r.segments[out[j].idx])],
         scores |-> [j \in 1..Len(out) |-> out[j].score],
         labels |-> [j \in 1..Len(out) |-> r.labels[out[j].idx]]]

\* batched_nms in hard mode on the same records: scores are never decayed,
\* and the boundaries of the kept segments are voted as in soft mode
hard_nms(c, r) ==
    LET plain == [r EXCEPT !.scores = [j \in DOMAIN r.scores |-> r.scores[j][1]]]
        keep == batched_nms(c, plain)
    IN  [segments |-> [j \in 1..Len(keep) |-> seg_voting(c, r, r.segments[keep[j]])],
         scores |-> [j \in 1..Len(keep) |-> r.scores[keep[j]]],
         labels |-> [j \in 1..Len(keep) |-> r.labels[keep[j]]]]

\* lines 1049-1060: the call of batched_nms, use_soft_nms = (method == 'soft')
NmsCall(c, r) ==
    IF c.test_nms_method = "soft" THEN soft_nms(c, r) ELSE hard_nms(c, r)

\* the configurations explored: hard and soft suppression, jointly or per
\* class, at most 2 or 3 segments returned, boundary voting off (0) or on
\* with the band IoU >= 1/2
NmsCfg ==
    [test_nms_method : {"hard", "soft"},
     test_iou_threshold : {<<2, 5>>},
     test_min_score : {<<1, 2>>},
     test_max_seg_num : {2, 3},
     test_multiclass_nms : BOOLEAN,
     test_nms_sigma : {<<1, 2>>},
     test_voting_thresh : {FInt(0), <<1, 2>>}]

\* the candidates: up to three segments with IoU 0, 1/3, 1/2 or 1 between
\* them and undecayed scores 0.9, 0.6 or 0.4
NmsSegs == {<<FInt(0), FInt(2)>>, <<FInt(1), FInt(3)>>,
            <<FInt(0), FInt(4)>>, <<FInt(5), FInt(6)>>}
NmsScores == {<<9, 10>>, <<3, 5>>, <<2, 5>>}
NmsCands == [seg : NmsSegs, score : NmsScores, label : Classes]
NmsLists ==
    {<<>>} \cup {<<x>> : x \in NmsCands} \cup {<<x, y>> : x, y \in NmsCands}
    \cup {<<x, y, z>> :
            x \in {k \in NmsCands : k.label = 0 /\ k.score = <<9, 10>>},
            y \in {k \in NmsCands : k.score # <<2, 5>>},
            z \in {k \in NmsCands : k.label = 0 /\ k.score = <<9, 10>>}}
NmsInputs ==
    {[segments |-> [j \in 1..Len(x) |-> x[j].seg],
      scores |-> [j \in 1..Len(x) |-> <<x[j].score, FInt(0)>>],
      labels |-> [j \in 1..Len(x) |-> x[j].label]] : x \in NmsLists}

InitNms ==
    /\ cfg \in NmsCfg
    /\ training = FALSE
    /\ loss_normalizer = FInt(1)
    /\ steps = 0
    /\ pc = "nms"
    /\ args \in NmsInputs
    /\ res = NoRes

\* batched_nms on the candidates
ApplyNms ==
    /\ pc = "nms"
    /\ res' = [once |-> NmsCall(cfg, args)]
    /\ pc' = "nms_once"
    /\ UNCHANGED <<cfg, training, loss_normalizer, steps, args>>

\* batched_nms, same thresholds and mode, on what it returned
ApplyNmsAgain ==
    /\ pc = "nms_once"
    /\ res' = [once |-> res.once, twice |-> NmsCall(cfg, res.once)]
    /\ pc' = "nms_twice"
    /\ UNCHANGED <<cfg, training, loss_normalizer, steps, args>>

NextNms == ApplyNms \/ ApplyNmsAgain

SpecNms == InitNms /\ [][NextNms]_vars

----------------------------------------------------------------------------
(* Properties of batched_nms *)

NmsTwice == pc = "nms_twice"

\* boundary voting is set
Voting == FLt(FInt(0), cfg.test_voting_thresh)

\* two returned segments that decay each other in soft mode
Overlapping(r) ==
    \E i, j \in DOMAIN r.segments :
        /\ i # j
        /\ cfg.test_multiclass_nms => r.labels[i] = r.labels[j]
        /\ FLt(FInt(0), Iou(r.segments[i], r.segments[j]))

\* two returned segments, of whatever class, that overlap
OverlappingAny(r) ==
    \E i, j \in DOMAIN r.segments :
        i # j /\ FLt(FInt(0), Iou(r.segments[i], r.segments[j]))

\* C21 as stated: applying batched_nms a second time, with the same
\* thresholds and mode, to the segments, scores and labels it returned yields
\* the same segments, scores and labels, in hard mode and in soft mode.
C21_NmsIdempotent == NmsTwice => res.twice = res.once

\* C21 amended: without boundary voting, batched_nms is idempotent in hard
\* mode, and in soft mode the second application returns the same segments,
\* scores and labels exactly when no two returned segments (of one class,
\* when multiclass) overlap, and otherwise decays the scores again.  With
\* boundary voting, in either mode, the second application returns the same
\* result when no two returned segments overlap at all, and in soft mode
\* still changes the scores when two of them (of one class, when multiclass)
\* overlap.
C21_NmsIdempotentUnlessDecayedOrVoted ==
    NmsTwice =>
        /\ (~Voting /\ cfg.test_nms_method = "hard") => res.twice = res.once
        /\ (~Voting /\ cfg.test_nms_method = "soft") =>
              (res.twice = res.once <=> ~Overlapping(res.once))
        /\ Voting => (~OverlappingAny(res.once) => res.twice = res.once)
        /\ (Voting /\ cfg.test_nms_method = "soft") =>
              (res.twice = res.once => ~Overlapping(res.once))

\* hard mode without voting: three candidates, one suppressed, the two
\* returned overlap below the threshold, and the second application returns
\* the same two
C21_Witness ==
    /\ NmsTwice
    /\ ~Voting
    /\ cfg.test_nms_method = "hard"
    /\ Len(args.segments) = 3
    /\ Len(res.once.segments) = 2
    /\ Overlapping(res.once)
    /\ res.twice = res.once

\* soft mode without voting, returned segments disjoint: nothing changes the
\* second time
C21_SoftDisjointWitness ==
    /\ NmsTwice
    /\ ~Voting
    /\ cfg.test_nms_method = "soft"
    /\ Len(res.once.segments) = 2
    /\ res.twice = res.once

\* hard mode with voting: [0,2] and [1,3] at 0.9 are kept and [0,4] at 0.6 is
\* suppressed, voting moves the kept ones to [0,2.8] and [0.6,3.4], whose IoU
\* 11/17 is above the threshold: the second application drops one of them
C21_HardVotedWitness ==
    /\ NmsTwice
    /\ Voting
    /\ cfg.test_nms_method = "hard"
    /\ res.once.segments = <<<<FInt(0), <<14, 5>>>>, <<<<3, 5>>, <<17, 5>>>>>>
    /\ Len(res.twice.segments) = 1

\* voting moved a boundary of a returned segment, the returned segments are
\* disjoint, and the second application returns them as they are
C21_VotedDisjointWitness ==
    /\ NmsTwice
    /\ Voting
    /\ Len(res.once.segments) = 2
    /\ \E j \in DOMAIN res.once.segments :
          \A i \in DOMAIN args.segments : res.once.segments[j] # args.segments[i]
    /\ ~OverlappingAny(res.once)
    /\ res.twice = res.once

\* soft mode with voting: the second application weighs candidates of
\* different decays, and a boundary is no longer a fraction
C21_SoftVotedWitness ==
    /\ NmsTwice
    /\ Voting
    /\ cfg.test_nms_method = "soft"
    /\ \E j \in DOMAIN res.twice.segments : Len(res.twice.segments[j][1]) > 2

----------------------------------------------------------------------------
(* Properties of the windows of the Trident head *)

\* the start-head / end-head logit of sample b, level l, class k at position
\* t, as the heads returned it
StartLogit(l, b, k, t) ==
    IF b = args.b THEN args.out_start[l][k * LevelLen[l] + t] ELSE Filler
EndLogit(l, b, k, t) ==
    IF b = args.b THEN args.out_end[l][k * LevelLen[l] + t] ELSE Filler

\* the entry of a window for distance d: the left side keeps distance
\* num_bins - j at index j, the right side distance j
LeftEntry(l, b, k, t, d) ==
    out_start_logits(cfg, args, l, b, t, k, cfg.num_bins - d)
RightEntry(l, b, k, t, d) == out_end_logits(cfg, args, l, b, t, k, d)

\* C22: in distribution mode, the window built for position t of a level
\* (length T) and class c holds, for each distance d in 0..num_bins, the
\* start-head logit of the same sample, level and class at position t-d as
\* the left-side entry for distance d (the logit 0 when t-d < 0), and the
\* end-head logit at position t+d as the right-side entry (the logit 0 when
\* t+d >= T); no window reads a logit of another level, class or sample.
\* Both in losses() and in inference_single_video().
C22_WindowsReadOwnRow ==
    Trident =>
        \A l \in Levels : \A k \in Classes : \A t \in 0..(LevelLen[l] - 1) :
            \A d \in 0..cfg.num_bins :
                /\ TrainDecoded => \A b \in Batch :
                      /\ LeftEntry(l, b, k, t, d) =
                            (IF t - d < 0 THEN 1 ELSE StartLogit(l, b, k, t - d))
                      /\ RightEntry(l, b, k, t, d) =
                            (IF t + d >= LevelLen[l] THEN 1
                             ELSE EndLogit(l, b, k, t + d))
                /\ InferDecoded =>
                      /\ InferLeft(cfg, args, l, k, t, cfg.num_bins - d) =
                            (IF t - d < 0 THEN 1
                             ELSE StartLogit(l, args.b, k, t - d))
                      /\ InferRight(cfg, args, l, k, t, d) =
                            (IF t + d >= LevelLen[l] THEN 1
                             ELSE EndLogit(l, args.b, k, t + d))

\* level 1 (T = 2) with 2 bins: the start logit of class 1 at position 0 is
\* -inf and is the left entry for distance 1 of position 1, the end logit of
\* class 0 at position 1 is NaN and is the right entry for distance 1 of
\* position 0; the entries beyond the border are the logit 0
C22_Witness ==
    /\ InferDecoded /\ Trident /\ cfg.num_bins = 2
    /\ StartLogit(1, args.b, 1, 0) = 0
    /\ InferLeft(cfg, args, 1, 1, 1, cfg.num_bins - 1) = 0
    /\ LeftEntry(1, args.b, 1, 1, 1) = 0
    /\ InferLeft(cfg, args, 1, 1, 1, cfg.num_bins - 2) = 1
    /\ EndLogit(1, args.b, 0, 1) = WNaN
    /\ InferRight(cfg, args, 1, 0, 0, 1) = WNaN
    /\ RightEntry(1, args.b, 0, 0, 1) = WNaN
    /\ InferRight(cfg, args, 1, 0, 0, 2) = 1

----------------------------------------------------------------------------
(* Properties of the single-label regression targets *)

\* segment n is the one the regression target of point p was taken from
RegTakenFrom(p, n) ==
    /\ FMul(res.reg[p][1], FInt(concat_points[p].stride))
          = FInt(concat_points[p].t - args.gt_segment[n][1])
    /\ FMul(res.reg[p][2], FInt(concat_points[p].stride))
          = FInt(args.gt_segment[n][2] - concat_points[p].t)

\* C23: single-label mode: at every position with a nonzero classification
\* target, the regression target times the level's stride is
\* (position - start, end - position) of one segment that passes the inside
\* and range checks there, whose duration is the minimum among the passing
\* segments and whose label is among the classes set at that position.
C23_RegTargetOfShortest ==
    (Labelled /\ ~cfg.multi_label) =>
        \A p \in LabelPts :
            ClassesSet(p) # {} =>
                \E n \in SatisfyingAt(p) :
                    /\ RegTakenFrom(p, n)
                    /\ \A m \in SatisfyingAt(p) : Duration(n) <= Duration(m)
                    /\ args.gt_label[n] \in ClassesSet(p)

\* a point of the second level (stride 2) where the longer of two segments
\* is the only one passing, and the target is taken from it and not from the
\* shorter one; at a point of the first level two segments one tolerance
\* apart pass, both classes are set and the target is the shorter one's
C23_Witness ==
    /\ Labelled /\ ~cfg.multi_label
    /\ NumGts = 2
    /\ \E p \in LabelPts : \E n, m \in 1..NumGts :
          /\ concat_points[p].stride = 2
          /\ SatisfyingAt(p) = {n}
          /\ Duration(m) < Duration(n)
          /\ RegTakenFrom(p, n) /\ ~RegTakenFrom(p, m)
    /\ \E p \in LabelPts : \E n, m \in SatisfyingAt(p) :
          /\ Duration(m) = Duration(n) + TieTolerance
          /\ ClassesSet(p) = Classes
          /\ RegTakenFrom(p, n) /\ ~RegTakenFrom(p, m)

----------------------------------------------------------------------------
(* Bounds of the loss normalizer *)

\* the initial value n0 and the bound max(n0, m, 1)
InitialNorm == FInt(cfg.init_loss_norm)
UpperFor(m) == FMax(InitialNorm, FInt(Max(m, 1)))
NormUpdate == pc = "losses" /\ pc' = "idle"

\* C24: from an initial value n0 >= 0, the loss normalizer is strictly
\* positive after every update and stays between min(n0, 1) and
\* max(n0, largest num_pos seen so far, 1), so that no loss is divided by
\* zero.  The upper bound is stated for each m: the normalizer stays at most
\* max(n0, m, 1) as long as no step has more than m positives.
C24_NormalizerBounded ==
    /\ loss_normalizer = InitialNorm
    /\ FLeq(FInt(0), InitialNorm)
    /\ [][ /\ FLeq(FMin(InitialNorm, FInt(1)), loss_normalizer')
           /\ NormUpdate =>
                 /\ FLt(FInt(0), loss_normalizer')
                 /\ ~NaNPositive(cfg.multi_label, args) =>
                       res'.cls_loss[2] > 0 /\ res'.reg_loss[2] > 0
           /\ \A m \in 0..(NumPts * num_classes) :
                 ( /\ FLeq(loss_normalizer, UpperFor(m))
                   /\ NormUpdate => NumPositives(cfg.multi_label, args) <= m )
                     => FLeq(loss_normalizer', UpperFor(m))
         ]_vars

\* from n0 = 0, two steps of at most one positive each, the last one without
\* any: the normalizer is 0.19 or less, above 0 and below 1
C24_Witness ==
    /\ pc = "idle"
    /\ steps = 2
    /\ cfg.init_loss_norm = 0
    /\ res.num_pos = 0
    /\ FLt(FInt(0), loss_normalizer)
    /\ FLeq(loss_normalizer, <<19, 100>>)

----------------------------------------------------------------------------
(* Positives lie inside their segment *)

\* the target reg, of point p, is (left, right) of segment n over the stride
TargetFrom(reg, p, n) == reg = RegOf(p, args.gt_segment[n])
StrictlyInside(p, n) ==
    /\ args.gt_segment[n][1] < concat_points[p].t
    /\ concat_points[p].t < args.gt_segment[n][2]

\* C25: under both center-sampling policies ('radius' with a radius > 0, and
\* 'none'), every position (single label) or position-class pair (multi
\* label) with a nonzero classification target lies strictly inside the
\* segment its regression target is taken from, so both components of the
\* target are strictly positive; a positive under 'radius' also passes the
\* plain interval check min(left, right) > 0 of that segment.
C25_PositivesStrictlyInside ==
    Labelled =>
        \A p \in LabelPts : \A k \in Classes :
            res.cls[p][k] # 0 =>
                /\ FLt(FInt(0), RegAt(p, k)[1])
                /\ FLt(FInt(0), RegAt(p, k)[2])
                /\ \E n \in SatisfyingAt(p) :
                      /\ TargetFrom(RegAt(p, k), p, n)
                      /\ cfg.multi_label => args.gt_label[n] = k
                      /\ StrictlyInside(p, n)
                      /\ inside_gt_seg_mask("none", cfg.train_center_sample_radius,
                                            p, args.gt_segment[n])

\* policy 'radius': a segment shorter than twice radius * stride, with a
\* point within radius * stride of its centre but beyond its end, which
\* stays background, and a positive point inside it
C25_Witness ==
    /\ Labelled
    /\ cfg.train_center_sample = "radius"
    /\ NumGts = 1
    /\ \E p \in LabelPts :
          /\ 2 * Abs(2 * concat_points[p].t
                     - (args.gt_segment[1][1] + args.gt_segment[1][2]))
                < 4 * concat_points[p].stride * cfg.train_center_sample_radius
          /\ concat_points[p].t > args.gt_segment[1][2]
          /\ inside_regress_range(p, args.gt_segment[1])
          /\ ClassesSet(p) = {}
    /\ \E p \in LabelPts :
          /\ ClassesSet(p) # {}
          /\ StrictlyInside(p, 1)

----------------------------------------------------------------------------
(* forward(): the videos it keeps, and preprocessing()                       *)

\* line 501: drop the data without annotation
Annotated(v) == v.segments # "None"
KeepAnnotated(video_list) == SelectSeq(video_list, Annotated)

\* lines 238-243: the largest stride * window size of the levels (the stride
\* itself where the window size is 1)
MutMaxDivFactorNoWindow(c) == Max(fpn_strides[1], fpn_strides[2])
max_div_factor(c) ==
    LET stride(l) == IF c.sgp_win_size[l] > 1
                     THEN fpn_strides[l] * c.sgp_win_size[l]
                     ELSE fpn_strides[l]
        first == IF 1 < stride(1) THEN stride(1) ELSE 1
    IN  IF first < stride(2) THEN stride(2) ELSE first

\* feats_lens.max(0)
RECURSIVE MaxLenOf(_)
MaxLenOf(video_list) ==
    IF Len(video_list) = 1 THEN video_list[1].feats_len
    ELSE Max(video_list[1].feats_len, MaxLenOf(Tail(video_list)))

\* preprocessing(video_list), lines 579-642: the error it raises, or the
\* padded length and the masks of the batch; an empty list fails at feats[0]
preprocessing(c, is_training, video_list) ==
    IF Len(video_list) = 0 THEN [error |-> "IndexError"]
    ELSE LET longest == MaxLenOf(video_list)
             stride == max_div_factor(c)
             max_len == IF is_training \/ longest <= c.max_seq_len
                        THEN c.max_seq_len
                        ELSE ((longest + (stride - 1)) \div stride) * stride
         IN  IF is_training /\ longest > c.max_seq_len
             THEN [error |-> "AssertionError"]
             ELSE IF ~is_training /\ Len(video_list) # 1
             THEN [error |-> "AssertionError"]
             ELSE [error |-> "none",
                   max_len |-> max_len,
                   batched_masks |-> [i \in 1..Len(video_list) |->
                       [t \in 0..(max_len - 1) |-> t < video_list[i].feats_len]]]

\* the models and the batches explored: max_seq_len 4, two levels with SGP
\* window sizes giving max_div_factor 2, 6 and 3; one or two videos of 1 to
\* 7 features, with or without annotation, an annotated video bringing 0, 2
\* or 3 positives (at most one per feature) to the losses of its batch
BatchCfg ==
    [max_seq_len : {4}, sgp_win_size : {<<1, 1>>, <<1, 3>>, <<3, 1>>}]
Videos(id) ==
    {v \in [video_id : {id}, feats_len : {1, 3, 4, 5, 7},
            segments : {"None", "tensor"}, num_pos : {0, 2, 3}] :
        /\ v.num_pos <= v.feats_len
        /\ v.segments = "None" => v.num_pos = 0}
VideoLists ==
    {<<v>> : v \in Videos("v1")}
    \cup {<<v, w>> : v \in Videos("v1"), w \in Videos("v2")}

InitBatch ==
    /\ cfg \in BatchCfg
    /\ training \in BOOLEAN
    /\ loss_normalizer = FInt(1)
    /\ steps = 0
    /\ pc = "forward"
    /\ args \in [video_list : VideoLists]
    /\ res = NoRes

\* forward(), line 501
DropUnannotated ==
    /\ pc = "forward"
    /\ res' = [video_list |-> KeepAnnotated(args.video_list)]
    /\ pc' = "preprocessing"
    /\ UNCHANGED <<cfg, training, loss_normalizer, steps, args>>

\* forward(), line 504: the call of preprocessing
Preprocessing ==
    /\ pc = "preprocessing"
    /\ LET r == preprocessing(cfg, training, res.video_list)
       IN  /\ res' = [video_list |-> res.video_list] @@ r
           /\ pc' = IF r.error = "none" THEN "heads" ELSE "raised"
    /\ UNCHANGED <<cfg, training, loss_normalizer, steps, args>>

\* forward(), lines 506-577: backbone, neck and heads; then, in training, the
\* losses of the batch, whose call of losses() updates the normalizer with
\* the positives of the videos kept (lines 823-827), or else one result per
\* video of video_list (lines 893-929, 1038-1071)
ForwardResults ==
    /\ pc = "heads"
    /\ LET RECURSIVE NumPosUpTo(_)
           NumPosUpTo(i) ==
               IF i = 0 THEN 0 ELSE res.video_list[i].num_pos + NumPosUpTo(i - 1)
           num_pos == NumPosUpTo(Len(res.video_list))
       IN  IF training
           THEN /\ res' = [res EXCEPT !.error = "none"] @@
                          [results |-> <<>>, num_pos |-> num_pos]
                /\ loss_normalizer' = UpdateNormalizer(loss_normalizer, num_pos)
                /\ steps' = steps + 1
           ELSE /\ res' = [res EXCEPT !.error = "none"] @@
                          [results |-> [i \in 1..Len(res.video_list) |->
                                          [video_id |-> res.video_list[i].video_id]]]
                /\ UNCHANGED <<loss_normalizer, steps>>
    /\ pc' = "returned"
    /\ UNCHANGED <<cfg, training, args>>

NextBatch == DropUnannotated \/ Preprocessing \/ ForwardResults

SpecBatch == InitBatch /\ [][NextBatch]_vars

----------------------------------------------------------------------------
(* Properties of forward() and preprocessing() *)

\* C26 as stated: in inference mode, forward called with a list of exactly
\* one video returns exactly one result record carrying that video's
\* video_id, whether or not the video has ground-truth segments
\* (segments = None for a video without annotations); a list of more than
\* one video is rejected by an assertion before any prediction is made.
C26_OneVideoOneResult ==
    ~training =>
        /\ Len(args.video_list) = 1 =>
              /\ pc # "raised"
              /\ pc = "returned" =>
                    /\ Len(res.results) = 1
                    /\ res.results[1].video_id = args.video_list[1].video_id
        /\ Len(args.video_list) > 1 =>
              /\ pc \notin {"heads", "returned"}
              /\ pc = "raised" => res.error = "AssertionError"

----------------------------------------------------------------------------
(* Properties of the candidates and their anchor points *)

\* position t of level l is inside the valid mask of the sample
ValidPosition(l, t) == t < args.fpn_lens[l]
\* the anchors (level, position) of the entries a level retained
AnchorsOf(l) ==
    {res.locals[l].pt_idxs[r] : r \in DOMAIN res.locals[l].pt_idxs}

\* C27: when pre_nms_thresh >= 0, no candidate of inference_single_video is
\* anchored at a position whose valid mask is false, whatever the
\* classification logits at the padded positions are: every entry a level
\* retains, hence every candidate it emits, is at a valid position.
C27_NoCandidateAtPadding ==
    FLeq(FInt(0), cfg.test_pre_nms_thresh) =>
        \A l \in DoneLevels :
            /\ \A t \in AnchorsOf(l) : ValidPosition(l, t)
            /\ \A j \in DOMAIN ExpectedOf(l) :
                  \E r \in DOMAIN CandidatesOf(l) :
                      /\ CandidatesOf(l)[r] = ExpectedOf(l)[j]
                      /\ ValidPosition(l, res.locals[l].pt_idxs[r])

\* threshold 0, the second position of the first level padded with the logit
\* of probability 0.9 for a class, the whole second level padded with it:
\* one candidate is emitted, at the first position
C27_Witness ==
    /\ pc = "inferred"
    /\ cfg.test_pre_nms_thresh = FInt(0)
    /\ args.fpn_lens = <<1, 0>>
    /\ \E k \in Classes : args.out_cls[1][num_classes + k] = HighLogit
    /\ args.out_cls[2][0] = HighLogit
    /\ AnchorsOf(1) = {0}
    /\ AnchorsOf(2) = {}
    /\ Len(res.segments) >= 1

\* the point of retained entry r of level l, and its decoded offsets
AnchorOf(l, r) == PositionOf(l, res.locals[l].pt_idxs[r])
DecodedOf(l, r) ==
    InferDecodeAt(cfg, args, l, res.locals[l].pt_idxs[r], res.locals[l].cls_idxs[r])

\* C28: every candidate inference_single_video emits contains its anchor
\* point, left <= position <= right, the decoded offsets of an emitted
\* candidate being no NaN and not negative (the output of relu in direct
\* regression, an expectation over the bin indices 0..num_bins in
\* distribution mode).
C28_CandidateContainsAnchor ==
    \A l \in DoneLevels :
        \A r \in DOMAIN CandidatesOf(l) :
            Emitted(CandidatesOf(l)[r]) =>
                /\ LET out == IF pc = "infer" THEN res.segs_all[l]
                                  ELSE res.segments
                   IN  \E j \in DOMAIN out : out[j] = CandidatesOf(l)[r].seg
                /\ FLeq(CandidatesOf(l)[r].seg[1], AnchorOf(l, r))
                /\ FLeq(AnchorOf(l, r), CandidatesOf(l)[r].seg[2])
                /\ \A side \in 1..2 :
                      /\ Finite(DecodedOf(l, r)[side])
                      /\ FLeq(FInt(0), DecodedOf(l, r)[side])

\* direct regression: a left output negative before relu, decoded to 0, and
\* the candidate [position, position + 3 * stride] emitted with its anchor
\* on its left boundary
C28_Witness ==
    /\ pc = "infer"
    /\ ~cfg.use_trident_head
    /\ \E l \in DoneLevels : \E r \in DOMAIN CandidatesOf(l) :
          /\ Emitted(CandidatesOf(l)[r])
          /\ DecodedOf(l, r) = <<FInt(0), FInt(3)>>
          /\ CandidatesOf(l)[r].seg[1] = AnchorOf(l, r)
          /\ FLt(AnchorOf(l, r), CandidatesOf(l)[r].seg[2])

----------------------------------------------------------------------------
(* Properties of preprocessing() *)

Preprocessed == pc \in {"heads", "returned"}

\* the largest stride * window size over the levels
LargestStrideWindow ==
    CHOOSE f \in {fpn_strides[l] * cfg.sgp_win_size[l] : l \in Levels} :
        \A l \in Levels : fpn_strides[l] * cfg.sgp_win_size[l] <= f
\* the smallest multiple of f that is >= n
SmallestMultiple(f, n) ==
    CHOOSE m \in n..(n + f) : m % f = 0 /\ \A x \in n..(m - 1) : x % f # 0
\* the padded length the claim gives for the longest input L
PaddedLength(L) ==
    IF training \/ L <= cfg.max_seq_len THEN cfg.max_seq_len
    ELSE SmallestMultiple(LargestStrideWindow, L)

\* C29: preprocessing pads an input of length L to length P and marks exactly
\* the positions 0..L-1 as valid: in training P = max_seq_len and an input
\* with L > max_seq_len is rejected by an assertion; in inference
\* P = max_seq_len when L <= max_seq_len and otherwise the smallest multiple
\* of max_div_factor (the largest per-level stride * window size) >= L.
C29_PaddedLengthAndMask ==
    /\ Preprocessed =>
          /\ res.max_len = PaddedLength(MaxLenOf(res.video_list))
          /\ \A i \in DOMAIN res.video_list :
                /\ DOMAIN res.batched_masks[i] = 0..(res.max_len - 1)
                /\ {t \in 0..(res.max_len - 1) : res.batched_masks[i][t]}
                      = 0..(res.video_list[i].feats_len - 1)
    /\ ( /\ training
         /\ pc \in {"heads", "returned", "raised"}
         /\ Len(res.video_list) > 0
         /\ MaxLenOf(res.video_list) > cfg.max_seq_len )
          => pc = "raised" /\ res.error = "AssertionError"

\* inference on a video of 7 features with max_seq_len 4, stride 2 and window
\* size 3 on the second level: padded to 12, the first 7 positions valid
C29_Witness ==
    /\ Preprocessed /\ ~training
    /\ cfg.sgp_win_size = <<1, 3>>
    /\ res.video_list[1].feats_len = 7
    /\ res.max_len = 12
    /\ res.batched_masks[1][6] /\ ~res.batched_masks[1][7]

\* training on two videos of 1 and 4 features: both padded to max_seq_len
C29_TrainingWitness ==
    /\ Preprocessed /\ training
    /\ Len(res.video_list) = 2
    /\ res.video_list[1].feats_len = 1
    /\ res.video_list[2].feats_len = 4
    /\ res.max_len = cfg.max_seq_len

----------------------------------------------------------------------------
(* HacsDataset.__getitem__: the strides of a sample and its timestamps on    *)
(* the feature grid, and their conversion back by postprocessing()          *)

\* lines 176-201: the local feat_stride and num_frames of a video of
\* feats.shape[0] = v.num_feats features, in the three cases
feat_stride_of(d, v) ==
    IF d.feat_stride > 0 /\ ~d.force_upsampling
    THEN (IF d.downsample_rate > 1
          THEN FInt(d.feat_stride * d.downsample_rate)
          ELSE FInt(d.feat_stride))
    ELSE IF d.feat_stride > 0 /\ d.force_upsampling
    THEN Frac((v.num_feats - 1) * d.feat_stride + d.num_frames, d.max_seq_len)
    ELSE LET seq_len == IF d.force_upsampling THEN d.max_seq_len ELSE v.num_feats
         IN  FDiv(FMul(v.duration, v.fps), FInt(seq_len))
num_frames_of(d, v) ==
    IF d.feat_stride > 0 /\ ~d.force_upsampling
    THEN FInt(d.num_frames)
    ELSE feat_stride_of(d, v)

\* line 195: assert seq_len <= self.max_seq_len, in the fixed-length case
FixedLengthTooLong(d, v) == d.feat_stride <= 0 /\ v.num_feats > d.max_seq_len

\* lines 239-241: a timestamp in seconds on the feature grid
segments_on_grid(d, v, t) ==
    FDiv(FSub(FMul(t, v.fps), FMul(<<1, 2>>, num_frames_of(d, v))),
         feat_stride_of(d, v))

\* lines 266-275: the sample record, for one timestamp of the annotation
MutDataDictConfigStride(d, v, t) ==
    [segments |-> segments_on_grid(d, v, t),
     fps |-> v.fps,
     duration |-> v.duration,
     feat_stride |-> IF d.feat_stride > 0 THEN FInt(d.feat_stride)
                     ELSE feat_stride_of(d, v),
     feat_num_frames |-> num_frames_of(d, v)]
data_dict(d, v, t) ==
    [segments |-> segments_on_grid(d, v, t),
     fps |-> v.fps,
     duration |-> v.duration,
     feat_stride |-> feat_stride_of(d, v),
     feat_num_frames |-> num_frames_of(d, v)]

\* lines 1063-1066 on a record whose strides are fractions
SecondsOf(x, r) ==
    LET s == FDiv(FAdd(FMul(x, r.feat_stride),
                       FMul(<<1, 2>>, r.feat_num_frames)), r.fps)
        low == IF FLeq(s, FInt(0)) THEN FMul(s, FInt(0)) ELSE s
    IN  IF FLeq(r.duration, low) THEN FAdd(FMul(low, FInt(0)), r.duration) ELSE low

\* the datasets explored: features of stride 4 and 16 frames, down-sampled by
\* 2 or not, or of fixed length (feat_stride 0), up-sampled to max_seq_len 4
\* or not; videos of 4 seconds at 15 or 30 fps with 1, 3 or 5 features; a
\* timestamp inside the video
DatasetCfg ==
    [feat_stride : {0, 4}, num_frames : {16}, downsample_rate : {1, 2},
     force_upsampling : BOOLEAN, max_seq_len : {4}]
VideoItems ==
    [fps : {FInt(15), FInt(30)}, duration : {FInt(4)}, num_feats : {1, 3, 5}]
Timestamps == {<<1, 10>>, <<1, 2>>, <<7, 3>>, <<39, 10>>}

InitTime ==
    /\ cfg \in DatasetCfg
    /\ training = FALSE
    /\ loss_normalizer = FInt(1)
    /\ steps = 0
    /\ pc = "getitem"
    /\ args \in [video_item : VideoItems, t : Timestamps]
    /\ res = NoRes

\* __getitem__ of an evaluation dataset
GetItem ==
    /\ pc = "getitem"
    /\ IF FixedLengthTooLong(cfg, args.video_item)
       THEN /\ res' = [error |-> "AssertionError"]
            /\ pc' = "raised"
       ELSE /\ res' = data_dict(cfg, args.video_item, args.t)
            /\ pc' = "sample"
    /\ UNCHANGED <<cfg, training, loss_normalizer, steps, args>>

\* postprocessing() of a boundary at the grid position of the timestamp,
\* with the meta information of the sample record
ConvertBack ==
    /\ pc = "sample"
    /\ res' = [record |-> res, seconds |-> SecondsOf(res.segments, res)]
    /\ pc' = "seconds"
    /\ UNCHANGED <<cfg, training, loss_normalizer, steps, args>>

NextTime == GetItem \/ ConvertBack

SpecTime == InitTime /\ [][NextTime]_vars

----------------------------------------------------------------------------
(* Properties of the timestamp conversions *)

\* the stride case a sample falls in
StrideCase ==
    IF cfg.feat_stride > 0 /\ ~cfg.force_upsampling THEN "variable"
    ELSE IF cfg.feat_stride > 0 THEN "upsampled"
    ELSE "fixed"

\* C30: for every time t with 0 < t < duration, converting t to feature-grid
\* units as the dataset does, (t * fps - 0.5 * feat_num_frames) / feat_stride,
\* and back as postprocessing does returns t, with the feat_stride and
\* feat_num_frames of the sample record, in each of the three stride cases.
C30_ConversionsInverse ==
    /\ pc = "sample" =>
          res.segments =
              FDiv(FSub(FMul(args.t, res.fps), FMul(<<1, 2>>, res.feat_num_frames)),
                   res.feat_stride)
    /\ pc = "seconds" =>
          /\ FLt(FInt(0), args.t) /\ FLt(args.t, args.video_item.duration)
          /\ res.seconds = args.t

\* a down-sampled variable-length sample: stride 8, 16 frames, 30 fps; the
\* time 0.1 s is before the centre of the first feature, at -0.625 on the
\* grid, and converts back to 0.1 s
C30_Witness ==
    /\ pc = "seconds"
    /\ StrideCase = "variable"
    /\ res.record.feat_stride = FInt(8)
    /\ res.record.segments = <<-5, 8>>
    /\ res.seconds = <<1, 10>>

\* the two other cases, their num_frames being the stride
C30_UpsampledWitness ==
    /\ pc = "seconds" /\ StrideCase = "upsampled"
    /\ res.record.feat_stride = <<6, 1>>
    /\ res.seconds = args.t
C30_FixedWitness ==
    /\ pc = "seconds" /\ StrideCase = "fixed" /\ ~cfg.force_upsampling
    /\ res.record.feat_stride = FInt(20)
    /\ res.record.feat_num_frames = FInt(20)
    /\ res.seconds = args.t

====
